---------------------------- MODULE Spec2Model ----------------------------
(***************************************************************************)
(* A model of the Scythes add-on: the fortune-aware drop count, the        *)
(* inventory deposit helper, the arc sweep, the crop / stacked-plant       *)
(* harvest and the event handlers that apply tool wear.                    *)
(*                                                                         *)
(* Source files (the bundle concatenates some modules):                    *)
(*   ItemUtils.js                    calculateDrops, getDropCount, ...     *)
(*   InventoryLibrary(1.1.2).js      inventory helpers (lines 1-544) and   *)
(*                                   the block utilities (lines 546-1058)  *)
(*   item_behaviors/OnUseOnScytheHarvest.js   use-on handler, vectors      *)
(*   item_behaviors/WoodenScythe.js           wooden scythe use-on         *)
(*   block_behaviors/tickBreakCrop.js         fake block tick callback     *)
(*   main.js                                  entityHitBlock handler       *)
(***************************************************************************)
EXTENDS Integers, Sequences, FiniteSets, TLC

VARIABLES
    \* ---- calculateDrops (ItemUtils.js) ----
    fortuneLevel,    \* the argument of calculateDrops
    rolls,           \* the values Math.random() has returned so far
    dropResult,      \* the value calculateDrops returned, NoResult before
    \* ---- giveEntityItems (InventoryLibrary) ----
    container,       \* the entity's container: a sequence of slots, or NoContainer
    request,         \* the item stack handed to giveEntityItems
    remainder,       \* the value giveEntityItems returned, NoResult before
    \* ---- isCropRipe / getBlocksInSweep as functions of their inputs ----
    probe,           \* the block handed to isCropRipe / the sweep's arguments
    answer,          \* what the function returned, NoResult before
    \* ---- the world and one player (event handlers) ----
    world,           \* cell -> block (typeId and growth state)
    players,         \* player -> location, view direction, selected slot, slots
    eventCount,      \* the player events handled so far
    last,            \* what the last event handler did (for the properties)
    \* ---- the entities of the dimension (entityHurt handler) ----
    dimension,       \* the living entities: id, typeId, location
    hurtEvents       \* the entityHurt events the host has still to deliver

vars == <<fortuneLevel, rolls, dropResult, container, request, remainder,
          probe, answer, world, players, eventCount, last, dimension, hurtEvents>>

NoResult == 0 - 1

Min(a, b) == IF a < b THEN a ELSE b
Max(a, b) == IF a > b THEN a ELSE b

(***************************************************************************)
(* The random source.  Math.random() returns a double in [0, 1); the model *)
(* draws k / RandomResolution for k in 0 .. RandomResolution - 1.          *)
(***************************************************************************)
RandomResolution == 4
RandomValues == 0 .. (RandomResolution - 1)

\* Math.floor(Math.random() * n) for the draw k / RandomResolution
RandomFloor(k, n) == (k * n) \div RandomResolution

\* Math.random() < 8 / 15 for the draw k / RandomResolution
BonusSuccess(k) == 15 * k < 8 * RandomResolution

(***************************************************************************)
(* ItemUtils.js calculateDrops.  rnd is the sequence of the draws the call *)
(* consumes: rnd[1] for the initial drops, rnd[2 ..] one per trial.        *)
(***************************************************************************)
clampedFortune(f) == Max(0, Min(f, 3))

trialsOf(f) == 3 + clampedFortune(f)

RECURSIVE additionalDrops(_, _, _)
additionalDrops(rnd, i, trials) ==
    IF i >= trials THEN 0
    ELSE (IF BonusSuccess(rnd[i + 2]) THEN 1 ELSE 0)
         + additionalDrops(rnd, i + 1, trials)

\* a mutant: the initial drops without the + 1
calculateDropsFromZero(f, rnd) ==
    RandomFloor(rnd[1], clampedFortune(f) + 1) + additionalDrops(rnd, 0, trialsOf(f))

calculateDrops(f, rnd) ==
    LET initialDrops == RandomFloor(rnd[1], clampedFortune(f) + 1) + 1
    IN  initialDrops + additionalDrops(rnd, 0, trialsOf(f))

(***************************************************************************)
(* Coordinates.  A real number r is held as the integer r * Scale (four    *)
(* decimal digits); a block location is a Vector3 of integers.             *)
(***************************************************************************)
Scale == 100 * 100

\* src/unnamed/part_000: class Vector3
Vector3(x, y, z) == [x |-> x, y |-> y, z |-> z]

\* vectorUtils addVectors (bundled in OnUseOnScytheHarvest.js)
addVectors(vector1, vector2) ==
    Vector3(vector1.x + vector2.x, vector1.y + vector2.y, vector1.z + vector2.z)

\* Math.floor of a fixed-point real
Floor(r) == r \div Scale

\* the nearest integer to a / b (b > 0)
DivRound(a, b) == (2 * a + b) \div (2 * b)


(***************************************************************************)
(* Numbers.  The arithmetic of the sweeps is that of IEEE 754 doubles, as  *)
(* JavaScript computes it: every product, sum, quotient and square root is *)
(* the double nearest to the exact result (a tie going to the even one).   *)
(* A double is sign * mantissa * 2^exponent with a mantissa of 53 bits;    *)
(* the mantissa is a natural number held by its digits to the base         *)
(* LimbBase, the least significant first, without leading zeros (0 is      *)
(* <<>>).  NaN is the double of sign 0.  Infinities, the negative zero and *)
(* subnormal numbers are not held.                                         *)
(***************************************************************************)
LimbBits == 2 * 7
LimbBase == 2 ^ LimbBits
MantissaBits == 50 + 3

RECURSIVE BigOf(_)
BigOf(n) == IF n = 0 THEN <<>> ELSE <<n % LimbBase>> \o BigOf(n \div LimbBase)

RECURSIVE SmallOf(_)
SmallOf(a) == IF a = <<>> THEN 0 ELSE Head(a) + LimbBase * SmallOf(Tail(a))

RECURSIVE Trim(_)
Trim(a) ==
    IF a = <<>> \/ a[Len(a)] # 0 THEN a ELSE Trim(SubSeq(a, 1, Len(a) - 1))

Digit(a, i) == IF i <= Len(a) THEN a[i] ELSE 0

RECURSIVE BigAddFrom(_, _, _, _)
BigAddFrom(a, b, i, carry) ==
    IF i > Len(a) /\ i > Len(b) THEN (IF carry = 0 THEN <<>> ELSE <<carry>>)
    ELSE <<(Digit(a, i) + Digit(b, i) + carry) % LimbBase>>
         \o BigAddFrom(a, b, i + 1, (Digit(a, i) + Digit(b, i) + carry) \div LimbBase)

BigAdd(a, b) == BigAddFrom(a, b, 1, 0)

\* a - b for a >= b
RECURSIVE BigSubFrom(_, _, _, _)
BigSubFrom(a, b, i, borrow) ==
    IF i > Len(a) THEN <<>>
    ELSE <<(a[i] - Digit(b, i) - borrow) % LimbBase>>
         \o BigSubFrom(a, b, i + 1, IF a[i] - Digit(b, i) - borrow < 0 THEN 1 ELSE 0)

BigSub(a, b) == Trim(BigSubFrom(a, b, 1, 0))

\* -1, 0 or 1 as a is less than, equal to or greater than b
RECURSIVE BigCmpFrom(_, _, _)
BigCmpFrom(a, b, i) ==
    IF i = 0 THEN 0
    ELSE IF a[i] > b[i] THEN 1
    ELSE IF a[i] < b[i] THEN 0 - 1
    ELSE BigCmpFrom(a, b, i - 1)

BigCmp(a, b) ==
    IF Len(a) > Len(b) THEN 1
    ELSE IF Len(a) < Len(b) THEN 0 - 1
    ELSE BigCmpFrom(a, b, Len(a))

\* a * m for a digit m
RECURSIVE BigTimesFrom(_, _, _, _)
BigTimesFrom(a, m, i, carry) ==
    IF i > Len(a) THEN BigOf(carry)
    ELSE <<(a[i] * m + carry) % LimbBase>>
         \o BigTimesFrom(a, m, i + 1, (a[i] * m + carry) \div LimbBase)

BigTimes(a, m) == IF m = 0 THEN <<>> ELSE BigTimesFrom(a, m, 1, 0)

\* a * LimbBase^n
ShiftLimbs(a, n) == IF a = <<>> THEN <<>> ELSE [i \in 1 .. n |-> 0] \o a

RECURSIVE BigMulFrom(_, _, _)
BigMulFrom(a, b, j) ==
    IF j > Len(b) THEN <<>>
    ELSE BigAdd(BigTimes(a, b[j]), ShiftLimbs(BigMulFrom(a, b, j + 1), 1))

BigMul(a, b) == BigMulFrom(a, b, 1)

\* a * 2^bits, a \div 2^bits and a % 2^bits
BigShl(a, bits) ==
    ShiftLimbs(BigTimes(a, 2 ^ (bits % LimbBits)), bits \div LimbBits)

ShrDigits(x, p) ==
    Trim([i \in 1 .. Len(x) |-> (x[i] \div p) + (Digit(x, i + 1) % p) * (LimbBase \div p)])

BigShr(a, bits) ==
    IF bits \div LimbBits >= Len(a) THEN <<>>
    ELSE ShrDigits(SubSeq(a, bits \div LimbBits + 1, Len(a)), 2 ^ (bits % LimbBits))

BigLow(a, bits) ==
    Trim([i \in 1 .. Min(Len(a), bits \div LimbBits + 1) |->
            IF i <= bits \div LimbBits THEN a[i] ELSE a[i] % (2 ^ (bits % LimbBits))])

\* the number of bits of a
RECURSIVE SmallBits(_)
SmallBits(n) == IF n = 0 THEN 0 ELSE 1 + SmallBits(n \div 2)

BitLen(a) == IF a = <<>> THEN 0 ELSE (Len(a) - 1) * LimbBits + SmallBits(a[Len(a)])

Double(s, m, e) == [s |-> s, m |-> m, e |-> e]
Zero == Double(1, <<>>, 0)

\* NaN, what 0 / 0 gives: the double of sign 0.  Every operation on NaN
\* gives NaN.  (The infinities are not among the doubles held: no
\* number other than 0 is divided by 0 and no result is out of range.)
DoubleNaN == Double(0, <<>>, 0)

\* the mantissa n of too many bits rounded to the nearest of drop bits
\* less, a tie going to the even one; inexact says that the exact number
\* is a little more than n
RoundedMantissa(n, drop, inexact) ==
    LET kept == BigShr(n, drop)
        c == BigCmp(BigLow(n, drop), BigShl(<<1>>, drop - 1))
    IN  IF c > 0 \/ (c = 0 /\ (inexact \/ kept[1] % 2 = 1))
        THEN BigAdd(kept, <<1>>) ELSE kept

Normal(s, m, e) ==
    IF BitLen(m) > MantissaBits THEN Double(s, BigShr(m, 1), e + 1) ELSE Double(s, m, e)

\* the double nearest to s * n * 2^e, n a number of bits bits
Shifted(s, n, e, shift) == Double(s, BigShl(n, shift), e - shift)

Rounded(s, n, e, inexact, bits) ==
    IF bits <= MantissaBits THEN Shifted(s, n, e, MantissaBits - bits)
    ELSE Normal(s, RoundedMantissa(n, bits - MantissaBits, inexact),
                e + bits - MantissaBits)

RoundToDouble(s, n, e, inexact) ==
    IF n = <<>> THEN Zero ELSE Rounded(s, n, e, inexact, BitLen(n))

\* an integer as a double
Exact(s, n) == IF n = <<>> THEN Zero ELSE Shifted(s, n, 0, MantissaBits - BitLen(n))

DoubleOf(n) == Exact(IF n < 0 THEN 0 - 1 ELSE 1, BigOf(IF n < 0 THEN 0 - n ELSE n))

Neg(a) == Double(0 - a.s, a.m, a.e)

\* a * b
DoubleMul(a, b) ==
    IF a.s * b.s = 0 THEN DoubleNaN
    ELSE RoundToDouble(a.s * b.s, BigMul(a.m, b.m), a.e + b.e, FALSE)

\* a + b and a - b
SignedSum(sa, x, sb, y, e) ==
    RoundToDouble(IF sa = sb \/ BigCmp(x, y) >= 0 THEN sa ELSE sb,
                  IF sa = sb THEN BigAdd(x, y)
                  ELSE IF BigCmp(x, y) >= 0 THEN BigSub(x, y) ELSE BigSub(y, x),
                  e, FALSE)

DoubleAdd(a, b) ==
    IF a.s * b.s = 0 THEN DoubleNaN
    ELSE IF a.m = <<>> THEN b
    ELSE IF b.m = <<>> THEN a
    ELSE SignedSum(a.s, BigShl(a.m, a.e - Min(a.e, b.e)),
                   b.s, BigShl(b.m, b.e - Min(a.e, b.e)), Min(a.e, b.e))

DoubleSub(a, b) == DoubleAdd(a, Neg(b))

\* a / b: the quotient of the mantissas to QuotientDigits more digits, by
\* long division; each digit is the largest t with d * t <= r
QuotientDigits == 2 * 2
QuotientBits == QuotientDigits * LimbBits

RECURSIVE QuotientDigit(_, _, _, _)
QuotientDigit(r, d, lo, hi) ==
    IF lo >= hi THEN lo
    ELSE IF BigCmp(BigTimes(d, (lo + hi + 1) \div 2), r) <= 0
         THEN QuotientDigit(r, d, (lo + hi + 1) \div 2, hi)
         ELSE QuotientDigit(r, d, lo, (lo + hi + 1) \div 2 - 1)

RECURSIVE DivDigits(_, _, _, _)
DivStep(r, d, n, q, t) ==
    DivDigits(BigSub(r, BigTimes(d, t)), d, n, BigAdd(ShiftLimbs(q, 1), BigOf(t)))

DivDigits(r, d, n, q) ==
    \* (the test on q makes it be computed at every step)
    IF n = 0 \/ Len(q) < 0 THEN [q |-> q, r |-> r]
    ELSE DivStep(ShiftLimbs(r, 1), d, n - 1, q,
                 QuotientDigit(ShiftLimbs(r, 1), d, 0, LimbBase - 1))

Quotient(qr, s, e) == RoundToDouble(s, qr.q, e, qr.r # <<>>)

DoubleDiv(a, b) ==
    IF a.s * b.s = 0 \/ (a.m = <<>> /\ b.m = <<>>) THEN DoubleNaN
    ELSE IF a.m = <<>> THEN Zero
    ELSE Quotient(IF BigCmp(a.m, b.m) >= 0
                  THEN DivDigits(BigSub(a.m, b.m), b.m, QuotientDigits, <<1>>)
                  ELSE DivDigits(a.m, b.m, QuotientDigits, <<>>),
                  a.s * b.s, a.e - b.e - QuotientBits)

\* Math.sqrt: the largest root whose square is at most n, digit by digit
\* from the digit at place p down, and its rounding
Squared(a) == BigMul(a, a)

RECURSIVE RootDigit(_, _, _, _, _)
RootDigit(n, root, p, lo, hi) ==
    IF lo >= hi THEN lo
    ELSE IF BigCmp(Squared(BigAdd(root, ShiftLimbs(BigOf((lo + hi + 1) \div 2), p))), n) <= 0
         THEN RootDigit(n, root, p, (lo + hi + 1) \div 2, hi)
         ELSE RootDigit(n, root, p, lo, (lo + hi + 1) \div 2 - 1)

RECURSIVE SqrtSearch(_, _, _)
SqrtSearch(n, root, p) ==
    IF p < 0 \/ Len(root) < 0 THEN root
    ELSE SqrtSearch(n, BigAdd(root, ShiftLimbs(BigOf(RootDigit(n, root, p, 0, LimbBase - 1)), p)),
                    p - 1)

Root(n, root, e) == RoundToDouble(1, root, e, BigCmp(Squared(root), n) # 0)

SqrtShifted(n, e) == Root(n, SqrtSearch(n, <<>>, Len(n) \div 2), e \div 2)

\* the shift that gives the root enough bits and leaves an even exponent
SqrtShift(a) == QuotientBits + 2 + (a.e % 2)

Sqrt(a) ==
    IF a.s = 0 \/ (a.s < 0 /\ a.m # <<>>) THEN DoubleNaN
    ELSE IF a.m = <<>> THEN Zero
    ELSE SqrtShifted(BigShl(a.m, SqrtShift(a)), a.e - SqrtShift(a))

\* a number that is NaN, where the numbers are held as integers: below
\* every coordinate of the world
NotANumber == 0 - 2 ^ 30

\* Math.round: the nearest integer, a tie going up (to +infinity); NaN of
\* NaN
Round(a) ==
    IF a.s = 0 THEN NotANumber
    ELSE IF a.m = <<>> THEN 0
    ELSE IF a.e >= 0 THEN a.s * SmallOf(BigShl(a.m, a.e))
    ELSE IF 0 - a.e > MantissaBits THEN 0
    ELSE IF a.s > 0 THEN SmallOf(BigShr(BigAdd(a.m, BigShl(<<1>>, 0 - a.e - 1)), 0 - a.e))
    ELSE IF BigCmp(a.m, BigShl(<<1>>, 0 - a.e - 1)) <= 0 THEN 0
    ELSE 0 - SmallOf(BigShr(BigAdd(BigSub(a.m, BigShl(<<1>>, 0 - a.e - 1)),
                                   BigSub(BigShl(<<1>>, 0 - a.e), <<1>>)), 0 - a.e))

\* the double of the decimal number r / Scale, the nearest double to it.
\* Scale is 16 * 625: a multiple of 1 / 16 is a double itself
Sixteenths(a) == IF a.m = <<>> THEN a ELSE Double(a.s, a.m, a.e - 4)

Real(r) ==
    IF r % (Scale \div 16) = 0 THEN Sixteenths(DoubleOf(r \div (Scale \div 16)))
    ELSE DoubleDiv(DoubleOf(r), DoubleOf(Scale))

(***************************************************************************)
(* Math.cos and Math.sin of angle * (Math.PI / 180) by half degrees 0,     *)
(* 0.5, ..., 90 (entry h + 1 is the angle h / 2 degrees), each double as   *)
(* <<exponent, the four digits of the mantissa>>.  The last place of a     *)
(* cosine or sine is the script engine's: the entries are the doubles the  *)
(* kernels of fdlibm return (the Math.cos and Math.sin of V8); the         *)
(* nearest doubles to the exact values differ from 11 of the cosines and   *)
(* 5 of the sines by one unit in the last place.  The cosine of 60         *)
(* degrees is 0.5000000000000001 and the sine of 30 degrees                *)
(* 0.49999999999999994; the cosine of 90 degrees is                        *)
(* 6.123233995736766e-17.                                                  *)
(***************************************************************************)
CosTable ==
    <<
        <<-52, 0, 0, 0, 1024>>, <<-53, 2509, 5735, 15106, 2047>>, <<-53, 12170, 8150, 11273, 2047>>,
        <<-53, 629, 12029, 4885, 2047>>, <<-53, 1383, 8956, 12327, 2046>>, <<-53, 1527, 10089, 831, 2046>>,
        <<-53, 9757, 13387, 3166, 2045>>, <<-53, 5706, 3612, 2950, 2044>>, <<-53, 16374, 1475, 183, 2043>>,
        <<-53, 8367, 14489, 11250, 2041>>, <<-53, 5538, 4192, 3387, 2040>>, <<-53, 6054, 838, 9362, 2038>>,
        <<-53, 10182, 5089, 12793, 2036>>, <<-53, 11351, 4397, 13683, 2034>>, <<-53, 16011, 5768, 12034, 2032>>,
        <<-53, 10395, 2993, 7849, 2030>>, <<-53, 5242, 9410, 1130, 2028>>, <<-53, 11036, 8750, 8265, 2025>>,
        <<-53, 9308, 4287, 12873, 2022>>, <<-53, 1906, 2447, 14957, 2019>>, <<-53, 7191, 12804, 14520, 2016>>,
        <<-53, 3147, 15311, 11567, 2013>>, <<-53, 14018, 9442, 6102, 2010>>, <<-53, 12815, 14193, 14512, 2006>>,
        <<-53, 128, 2536, 4035, 2003>>, <<-53, 13494, 16101, 7441, 1999>>, <<-53, 1807, 1338, 8354, 1995>>,
        <<-53, 7118, 6108, 6776, 1991>>, <<-53, 14885, 15846, 2713, 1987>>, <<-53, 13326, 2703, 12556, 1982>>,
        <<-53, 16149, 7458, 3540, 1978>>, <<-53, 15873, 8442, 8440, 1973>>, <<-53, 15232, 3449, 10878, 1968>>,
        <<-53, 5568, 9730, 10859, 1963>>, <<-53, 6943, 14831, 8390, 1958>>, <<-53, 6113, 9357, 3478, 1953>>,
        <<-53, 5375, 3345, 12513, 1947>>, <<-53, 2084, 9873, 2733, 1942>>, <<-53, 13515, 12282, 6914, 1936>>,
        <<-53, 16031, 13323, 8679, 1930>>, <<-53, 11548, 2376, 8036, 1924>>, <<-53, 8316, 4594, 4991, 1918>>,
        <<-53, 14341, 15358, 15936, 1911>>, <<-53, 10674, 269, 8113, 1905>>, <<-53, 2904, 9823, 14295, 1898>>,
        <<-53, 3398, 15562, 1724, 1892>>, <<-53, 9839, 8369, 3177, 1885>>, <<-53, 12840, 14841, 2277, 1878>>,
        <<-53, 16277, 15357, 15418, 1870>>, <<-53, 4798, 9605, 9841, 1863>>, <<-53, 5991, 183, 1939, 1856>>,
        <<-53, 1467, 8977, 8104, 1848>>, <<-53, 14538, 11608, 11963, 1840>>, <<-53, 14074, 2962, 13526, 1832>>,
        <<-53, 11373, 13556, 12801, 1824>>, <<-53, 6001, 11225, 9800, 1816>>, <<-53, 9992, 15796, 4532, 1808>>,
        <<-53, 2965, 774, 13393, 1799>>, <<-53, 14790, 8012, 3623, 1791>>, <<-53, 8130, 249, 8003, 1782>>,
        <<-53, 3243, 8545, 10158, 1773>>, <<-53, 2706, 1200, 10101, 1764>>, <<-53, 10974, 14811, 7841, 1755>>,
        <<-53, 1345, 6804, 3392, 1746>>, <<-53, 10565, 2870, 13148, 1736>>, <<-53, 656, 15039, 4352, 1727>>,
        <<-53, 12252, 8888, 9786, 1717>>, <<-53, 3277, 1840, 13077, 1707>>, <<-53, 11940, 13987, 14236, 1697>>,
        <<-53, 5106, 2548, 13278, 1687>>, <<-53, 1863, 9302, 10213, 1677>>, <<-53, 13587, 13120, 5055, 1667>>,
        <<-53, 13480, 11871, 14201, 1656>>, <<-53, 1162, 6018, 4896, 1646>>, <<-53, 14868, 14985, 9920, 1635>>,
        <<-53, 9362, 11612, 12904, 1624>>, <<-53, 9169, 4049, 13861, 1613>>, <<-53, 12884, 2977, 12804, 1602>>,
        <<-53, 9000, 5206, 9747, 1591>>, <<-53, 4996, 10040, 4704, 1580>>, <<-53, 4153, 2877, 14074, 1568>>,
        <<-53, 12051, 4343, 5102, 1557>>, <<-53, 7223, 4740, 10571, 1545>>, <<-53, 7070, 13176, 14111, 1533>>,
        <<-53, 16066, 8398, 15738, 1521>>, <<-53, 3717, 4311, 15466, 1509>>, <<-53, 10626, 801, 13310, 1497>>,
        <<-53, 5838, 109, 9285, 1485>>, <<-53, 3385, 6805, 3406, 1473>>, <<-53, 12102, 11388, 12073, 1460>>,
        <<-53, 15309, 6652, 2534, 1448>>, <<-53, 13170, 4048, 7572, 1435>>, <<-53, 13072, 897, 10819, 1422>>,
        <<-53, 796, 13140, 12290, 1409>>, <<-53, 7211, 9778, 12003, 1396>>, <<-53, 8359, 11162, 9973, 1383>>,
        <<-53, 3032, 7048, 6217, 1370>>, <<-53, 5711, 5729, 751, 1357>>, <<-53, 4052, 1249, 9976, 1343>>,
        <<-53, 12014, 6147, 1140, 1330>>, <<-53, 5661, 2288, 7029, 1316>>, <<-53, 3812, 6373, 11275, 1302>>,
        <<-53, 15038, 4385, 13896, 1288>>, <<-53, 14862, 721, 14909, 1274>>, <<-53, 2361, 1783, 14331, 1260>>,
        <<-53, 5098, 15956, 12179, 1246>>, <<-53, 16054, 4438, 8473, 1232>>, <<-53, 10026, 12289, 3228, 1218>>,
        <<-53, 6750, 4565, 12848, 1203>>, <<-53, 572, 13756, 4581, 1189>>, <<-53, 2424, 8689, 11215, 1174>>,
        <<-53, 13940, 9195, 16383, 1159>>, <<-53, 15634, 4167, 3720, 1145>>, <<-53, 1960, 687, 6012, 1130>>,
        <<-53, 14109, 7617, 6893, 1115>>, <<-53, 6747, 2816, 6383, 1100>>, <<-53, 7466, 15027, 4499, 1085>>,
        <<-53, 11933, 9172, 1262, 1070>>, <<-53, 7955, 1015, 13074, 1054>>, <<-53, 13846, 7984, 7185, 1039>>,
        <<-53, 1, 0, 0, 1024>>, <<-54, 10094, 11884, 15841, 2016>>, <<-54, 8430, 14270, 12782, 1985>>,
        <<-54, 10161, 5712, 7246, 1954>>, <<-54, 4218, 4241, 15655, 1922>>, <<-54, 5944, 14545, 5280, 1891>>,
        <<-54, 7682, 11539, 8930, 1859>>, <<-54, 7491, 5850, 10260, 1827>>, <<-54, 1481, 11000, 9309, 1795>>,
        <<-54, 5240, 10587, 6118, 1763>>, <<-54, 6227, 7390, 727, 1731>>, <<-54, 10965, 6932, 9560, 1698>>,
        <<-54, 6865, 1048, 16274, 1665>>, <<-54, 2653, 600, 4525, 1633>>, <<-54, 16298, 2659, 7122, 1600>>,
        <<-54, 10596, 6842, 7722, 1567>>, <<-54, 5760, 15254, 6366, 1534>>, <<-54, 8732, 16057, 3096, 1501>>,
        <<-54, 4926, 16187, 14337, 1467>>, <<-54, 12571, 8531, 7363, 1434>>, <<-54, 3063, 4648, 14983, 1400>>,
        <<-54, 15033, 1942, 4471, 1367>>, <<-54, 3549, 3, 8637, 1333>>, <<-54, 14208, 544, 11139, 1299>>,
        <<-54, 10576, 7359, 12019, 1265>>, <<-54, 10269, 9878, 11320, 1231>>, <<-54, 5576, 15887, 9084, 1197>>,
        <<-54, 12646, 2320, 5355, 1163>>, <<-54, 3625, 13514, 173, 1129>>, <<-54, 314, 13694, 9967, 1094>>,
        <<-54, 1680, 1612, 2012, 1060>>, <<-54, 7544, 10492, 9117, 1025>>, <<-55, 14619, 2962, 13503, 1981>>,
        <<-55, 15310, 5715, 6298, 1912>>, <<-55, 1650, 6967, 13091, 1842>>, <<-55, 9586, 3800, 1201, 1773>>,
        <<-55, 6394, 12553, 3482, 1703>>, <<-55, 12822, 3170, 3639, 1633>>, <<-55, 8787, 13785, 1757, 1563>>,
        <<-55, 15918, 3152, 14310, 1492>>, <<-55, 13196, 14381, 8615, 1422>>, <<-55, 13281, 10984, 1146, 1352>>,
        <<-55, 4983, 7841, 8374, 1281>>, <<-55, 7540, 5551, 14003, 1210>>, <<-55, 7706, 6710, 1737, 1140>>,
        <<-55, 8917, 15798, 4432, 1069>>, <<-56, 8916, 12605, 11588, 1996>>, <<-56, 11517, 5053, 11820, 1854>>,
        <<-56, 5995, 11505, 9737, 1712>>, <<-56, 11615, 4643, 5518, 1570>>, <<-56, 256, 8970, 15723, 1427>>,
        <<-56, 3661, 2278, 7763, 1285>>, <<-56, 4387, 13737, 14582, 1142>>, <<-57, 8914, 1578, 7185, 2000>>,
        <<-57, 2337, 9151, 15476, 1714>>, <<-57, 3602, 4517, 5244, 1429>>, <<-57, 7223, 10207, 9612, 1143>>,
        <<-58, 2701, 3651, 8724, 1715>>, <<-58, 7479, 11815, 12466, 1143>>, <<-59, 3083, 4693, 13180, 1143>>,
        <<-106, 7175, 3153, 8803, 1129>>
    >>

SinTable ==
    <<
        <<0, 0, 0, 0, 0>>, <<-59, 3105, 4693, 13180, 1143>>, <<-58, 7454, 11815, 12466, 1143>>,
        <<-58, 2705, 3651, 8724, 1715>>, <<-57, 7207, 10207, 9612, 1143>>, <<-57, 3601, 4517, 5244, 1429>>,
        <<-57, 2318, 9151, 15476, 1714>>, <<-57, 8909, 1578, 7185, 2000>>, <<-56, 4392, 13737, 14582, 1142>>,
        <<-56, 3657, 2278, 7763, 1285>>, <<-56, 258, 8970, 15723, 1427>>, <<-56, 11608, 4643, 5518, 1570>>,
        <<-56, 5996, 11505, 9737, 1712>>, <<-56, 11509, 5053, 11820, 1854>>, <<-56, 8915, 12605, 11588, 1996>>,
        <<-55, 8912, 15798, 4432, 1069>>, <<-55, 7705, 6710, 1737, 1140>>, <<-55, 7543, 5551, 14003, 1210>>,
        <<-55, 4981, 7841, 8374, 1281>>, <<-55, 13283, 10984, 1146, 1352>>, <<-55, 13193, 14381, 8615, 1422>>,
        <<-55, 15919, 3152, 14310, 1492>>, <<-55, 8783, 13785, 1757, 1563>>, <<-55, 12822, 3170, 3639, 1633>>,
        <<-55, 6390, 12553, 3482, 1703>>, <<-55, 9585, 3800, 1201, 1773>>, <<-55, 1653, 6967, 13091, 1842>>,
        <<-55, 15307, 5715, 6298, 1912>>, <<-55, 14621, 2962, 13503, 1981>>, <<-54, 7543, 10492, 9117, 1025>>,
        <<-54, 1680, 1612, 2012, 1060>>, <<-54, 312, 13694, 9967, 1094>>, <<-54, 3625, 13514, 173, 1129>>,
        <<-54, 12644, 2320, 5355, 1163>>, <<-54, 5576, 15887, 9084, 1197>>, <<-54, 10270, 9878, 11320, 1231>>,
        <<-54, 10575, 7359, 12019, 1265>>, <<-54, 14209, 544, 11139, 1299>>, <<-54, 3548, 3, 8637, 1333>>,
        <<-54, 15033, 1942, 4471, 1367>>, <<-54, 3061, 4648, 14983, 1400>>, <<-54, 12571, 8531, 7363, 1434>>,
        <<-54, 4924, 16187, 14337, 1467>>, <<-54, 8732, 16057, 3096, 1501>>, <<-54, 5761, 15254, 6366, 1534>>,
        <<-54, 10595, 6842, 7722, 1567>>, <<-54, 16299, 2659, 7122, 1600>>, <<-54, 2652, 600, 4525, 1633>>,
        <<-54, 6865, 1048, 16274, 1665>>, <<-54, 10963, 6932, 9560, 1698>>, <<-54, 6227, 7390, 727, 1731>>,
        <<-54, 5238, 10587, 6118, 1763>>, <<-54, 1480, 11000, 9309, 1795>>, <<-54, 7492, 5850, 10260, 1827>>,
        <<-54, 7680, 11539, 8930, 1859>>, <<-54, 5944, 14545, 5280, 1891>>, <<-54, 4217, 4241, 15655, 1922>>,
        <<-54, 10162, 5712, 7246, 1954>>, <<-54, 8429, 14270, 12782, 1985>>, <<-54, 10095, 11884, 15841, 2016>>,
        <<-54, 16383, 16383, 16383, 2047>>, <<-53, 13845, 7984, 7185, 1039>>, <<-53, 7955, 1015, 13074, 1054>>,
        <<-53, 11932, 9172, 1262, 1070>>, <<-53, 7466, 15027, 4499, 1085>>, <<-53, 6747, 2816, 6383, 1100>>,
        <<-53, 14109, 7617, 6893, 1115>>, <<-53, 1960, 687, 6012, 1130>>, <<-53, 15635, 4167, 3720, 1145>>,
        <<-53, 13940, 9195, 16383, 1159>>, <<-53, 2424, 8689, 11215, 1174>>, <<-53, 572, 13756, 4581, 1189>>,
        <<-53, 6750, 4565, 12848, 1203>>, <<-53, 10025, 12289, 3228, 1218>>, <<-53, 16054, 4438, 8473, 1232>>,
        <<-53, 5098, 15956, 12179, 1246>>, <<-53, 2361, 1783, 14331, 1260>>, <<-53, 14862, 721, 14909, 1274>>,
        <<-53, 15037, 4385, 13896, 1288>>, <<-53, 3812, 6373, 11275, 1302>>, <<-53, 5660, 2288, 7029, 1316>>,
        <<-53, 12014, 6147, 1140, 1330>>, <<-53, 4052, 1249, 9976, 1343>>, <<-53, 5711, 5729, 751, 1357>>,
        <<-53, 3032, 7048, 6217, 1370>>, <<-53, 8359, 11162, 9973, 1383>>, <<-53, 7211, 9778, 12003, 1396>>,
        <<-53, 796, 13140, 12290, 1409>>, <<-53, 13072, 897, 10819, 1422>>, <<-53, 13170, 4048, 7572, 1435>>,
        <<-53, 15308, 6652, 2534, 1448>>, <<-53, 12102, 11388, 12073, 1460>>, <<-53, 3385, 6805, 3406, 1473>>,
        <<-53, 5837, 109, 9285, 1485>>, <<-53, 10626, 801, 13310, 1497>>, <<-53, 3717, 4311, 15466, 1509>>,
        <<-53, 16066, 8398, 15738, 1521>>, <<-53, 7070, 13176, 14111, 1533>>, <<-53, 7223, 4740, 10571, 1545>>,
        <<-53, 12051, 4343, 5102, 1557>>, <<-53, 4153, 2877, 14074, 1568>>, <<-53, 4996, 10040, 4704, 1580>>,
        <<-53, 9000, 5206, 9747, 1591>>, <<-53, 12884, 2977, 12804, 1602>>, <<-53, 9170, 4049, 13861, 1613>>,
        <<-53, 9362, 11612, 12904, 1624>>, <<-53, 14868, 14985, 9920, 1635>>, <<-53, 1161, 6018, 4896, 1646>>,
        <<-53, 13480, 11871, 14201, 1656>>, <<-53, 13587, 13120, 5055, 1667>>, <<-53, 1863, 9302, 10213, 1677>>,
        <<-53, 5106, 2548, 13278, 1687>>, <<-53, 11941, 13987, 14236, 1697>>, <<-53, 3277, 1840, 13077, 1707>>,
        <<-53, 12252, 8888, 9786, 1717>>, <<-53, 655, 15039, 4352, 1727>>, <<-53, 10566, 2870, 13148, 1736>>,
        <<-53, 1344, 6804, 3392, 1746>>, <<-53, 10974, 14811, 7841, 1755>>, <<-53, 2705, 1200, 10101, 1764>>,
        <<-53, 3242, 8545, 10158, 1773>>, <<-53, 8130, 249, 8003, 1782>>, <<-53, 14790, 8012, 3623, 1791>>,
        <<-53, 2965, 774, 13393, 1799>>, <<-53, 9991, 15796, 4532, 1808>>, <<-53, 6001, 11225, 9800, 1816>>,
        <<-53, 11372, 13556, 12801, 1824>>, <<-53, 14074, 2962, 13526, 1832>>, <<-53, 14538, 11608, 11963, 1840>>,
        <<-53, 1466, 8977, 8104, 1848>>, <<-53, 5991, 183, 1939, 1856>>, <<-53, 4798, 9605, 9841, 1863>>,
        <<-53, 16277, 15357, 15418, 1870>>, <<-53, 12840, 14841, 2277, 1878>>, <<-53, 9839, 8369, 3177, 1885>>,
        <<-53, 3398, 15562, 1724, 1892>>, <<-53, 2904, 9823, 14295, 1898>>, <<-53, 10674, 269, 8113, 1905>>,
        <<-53, 14341, 15358, 15936, 1911>>, <<-53, 8316, 4594, 4991, 1918>>, <<-53, 11547, 2376, 8036, 1924>>,
        <<-53, 16031, 13323, 8679, 1930>>, <<-53, 13514, 12282, 6914, 1936>>, <<-53, 2084, 9873, 2733, 1942>>,
        <<-53, 5375, 3345, 12513, 1947>>, <<-53, 6113, 9357, 3478, 1953>>, <<-53, 6943, 14831, 8390, 1958>>,
        <<-53, 5568, 9730, 10859, 1963>>, <<-53, 15232, 3449, 10878, 1968>>, <<-53, 15873, 8442, 8440, 1973>>,
        <<-53, 16149, 7458, 3540, 1978>>, <<-53, 13326, 2703, 12556, 1982>>, <<-53, 14885, 15846, 2713, 1987>>,
        <<-53, 7118, 6108, 6776, 1991>>, <<-53, 1807, 1338, 8354, 1995>>, <<-53, 13494, 16101, 7441, 1999>>,
        <<-53, 127, 2536, 4035, 2003>>, <<-53, 12815, 14193, 14512, 2006>>, <<-53, 14018, 9442, 6102, 2010>>,
        <<-53, 3147, 15311, 11567, 2013>>, <<-53, 7191, 12804, 14520, 2016>>, <<-53, 1906, 2447, 14957, 2019>>,
        <<-53, 9308, 4287, 12873, 2022>>, <<-53, 11036, 8750, 8265, 2025>>, <<-53, 5242, 9410, 1130, 2028>>,
        <<-53, 10395, 2993, 7849, 2030>>, <<-53, 16011, 5768, 12034, 2032>>, <<-53, 11351, 4397, 13683, 2034>>,
        <<-53, 10182, 5089, 12793, 2036>>, <<-53, 6054, 838, 9362, 2038>>, <<-53, 5538, 4192, 3387, 2040>>,
        <<-53, 8367, 14489, 11250, 2041>>, <<-53, 16374, 1475, 183, 2043>>, <<-53, 5706, 3612, 2950, 2044>>,
        <<-53, 9757, 13387, 3166, 2045>>, <<-53, 1527, 10089, 831, 2046>>, <<-53, 1383, 8956, 12327, 2046>>,
        <<-53, 629, 12029, 4885, 2047>>, <<-53, 12170, 8150, 11273, 2047>>, <<-53, 2509, 5735, 15106, 2047>>,
        <<-52, 0, 0, 0, 1024>>
    >>

Abs(n) == IF n < 0 THEN -n ELSE n

Entry(t) == IF t[5] = 0 THEN Zero ELSE Double(1, <<t[2], t[3], t[4], t[5]>>, t[1])

\* Math.cos / Math.sin of an angle given in half degrees, -180 .. 180
Cos(h) == Entry(CosTable[Abs(h) + 1])
Sin(h) == IF h < 0 THEN Neg(Entry(SinTable[Abs(h) + 1])) ELSE Entry(SinTable[h + 1])


Contains(seq, e) == \E i \in 1 .. Len(seq) : seq[i] = e

\* the block the host resolves a (real) location to
getBlock(blockLocation) ==
    Vector3(Floor(blockLocation.x), Floor(blockLocation.y), Floor(blockLocation.z))

(***************************************************************************)
(* Blocks.  A type identifier "ns:name" is the record of its two parts;    *)
(* the name is the sequence of its pieces, so that "fake_wheat" is         *)
(* <<"fake_", "wheat">> and the string operations of the source            *)
(* (split(":")[1], split("fake_")[1], template strings) compute on it.     *)
(***************************************************************************)
NoState == 0 - 1          \* permutation.getState of a state the block lacks

TypeId(ns, name) == [ns |-> ns, name |-> name]
Minecraft(word) == TypeId("minecraft", <<word>>)
Fake(cropName) == TypeId("djc", <<"fake_">> \o cropName)

Air == Minecraft("air")
Dirt == Minecraft("dirt")
Wheat == Minecraft("wheat")
Carrots == Minecraft("carrots")
Potatoes == Minecraft("potatoes")
Beetroot == Minecraft("beetroot")
Reeds == Minecraft("reeds")
Bamboo == Minecraft("bamboo")
TallGrass == Minecraft("tallgrass")
MelonStem == Minecraft("melon_stem")

\* the block types whose permutations carry a "growth" state (host data)
GrowthTypes == {Wheat, Carrots, Potatoes, Beetroot, MelonStem}

\* the block types the host knows (BlockTypes); setType of another throws
RegisteredBlockTypes ==
    {Air, Dirt, Wheat, Carrots, Potatoes, Beetroot, Reeds, Bamboo, TallGrass, MelonStem,
     Fake(<<"wheat">>), Fake(<<"carrots">>), Fake(<<"potatoes">>), Fake(<<"beetroot">>),
     Fake(<<"sugar_cane">>), Fake(<<"bamboo">>)}

Block(typeId, growth) == [typeId |-> typeId, growth |-> growth]

\* block.setType: the default permutation of the type
DefaultBlock(typeId) ==
    Block(typeId, IF typeId \in GrowthTypes THEN 0 ELSE NoState)

\* ScytheDestructable.js is not among the sources: the configured list
scytheDestructable == {TallGrass, Carrots}

\* BlockUtils isBlockScytheDestructable (558-560)
isBlockScytheDestructable(block) == block.typeId \in scytheDestructable

\* BlockUtils isBlockCrop (579-583)
crops == {Wheat, Carrots, Potatoes, Beetroot}

isBlockCrop(block) == block.typeId \in crops

\* BlockUtils getBlockState(block, "growth") (669-671)
getBlockStateGrowth(block) == block.growth

\* a mutant: ripe from stage 6 on
isCropRipeFromSix(crop) == getBlockStateGrowth(crop) >= 6

\* BlockUtils isCropRipe (589-593)
isCropRipe(crop) ==
    LET growthStage == getBlockStateGrowth(crop)
    IN  growthStage = 7

\* BlockUtils isBlockSugarcane (599-613): "minecraft:reeds" while the host
\* knows that type, "minecraft:sugarcane" otherwise
isBlockSugarcane(block) ==
    LET sugarcaneId == IF Reeds \in RegisteredBlockTypes THEN Reeds
                       ELSE Minecraft("sugarcane")
    IN  block.typeId = sugarcaneId

\* BlockUtils isBlockBamboo (619-621)
isBlockBamboo(block) == block.typeId = Bamboo

\* BlockUtils getCropDropItemId (627-652)
getCropDropItemId(crop) ==
    CASE crop.typeId = Carrots -> <<"minecraft:carrot">>
      [] crop.typeId = Potatoes -> <<"minecraft:potato">>
      [] crop.typeId = Wheat -> <<"minecraft:wheat", "minecraft:wheat_seeds">>
      [] crop.typeId = Beetroot -> <<"minecraft:beetroot", "minecraft:beetroot_seeds">>
      [] OTHER -> <<>>

\* a mutant: only the two seed items count as seeds
isItemSeedOnlySeeds(itemId) ==
    itemId \in {"minecraft:wheat_seeds", "minecraft:beetroot_seeds"}

\* ItemUtils isItemSeed (80-82)
isItemSeed(itemId) ==
    itemId \in {"minecraft:wheat_seeds", "minecraft:beetroot_seeds",
                "minecraft:carrot", "minecraft:potato"}

(***************************************************************************)
(* Items and containers.  An item stack is a record; name stands for what  *)
(* makes two stacks of one type differ (name tag, lore, dynamic            *)
(* properties: what compareItemStacks compares beside the type).           *)
(***************************************************************************)
ItemStack(typeId, amount) ==
    [typeId |-> typeId, amount |-> amount, damage |-> 0, fortune |-> 0, name |-> ""]

NoItem == ItemStack("none", 0)

\* an item stack with a name tag
Named(item, name) == [item EXCEPT !.name = name]

Scythe(typeId, damage, fortune) ==
    [typeId |-> typeId, amount |-> 1, damage |-> damage, fortune |-> fortune, name |-> ""]

IronScythe == "djc:iron_scythe"
WoodenScytheId == "djc:wooden_scythe"
ScytheIds == {IronScythe, WoodenScytheId}

\* item data of the add-on (not among the sources): the "reach:<n>" tag
\* and the durability component of the scythes
ScytheReach == 1
ScytheMaxDurability == 2

\* itemStack.maxAmount (host data): 64, and 1 for a tool
StackLimit == 64

maxAmount(typeId) == IF typeId \in ScytheIds THEN 1 ELSE StackLimit

\* itemStack.getTags().includes("scythe")
hasScytheTag(item) == item.typeId \in ScytheIds

\* ItemUtils getItemPropertyTag(item, "reach") with parseInt (main.js 85)
reachOf(item) == ScytheReach

\* the host's isStackableWith: same type and nothing else differing
isStackableWith(a, b) == a.typeId = b.typeId /\ a.name = b.name /\ maxAmount(a.typeId) > 1

\* InventoryLibrary getAvailableSpaceForItemStack (278-305), with
\* onlyConsiderExistingStacks = false
RECURSIVE availableSpaceFrom(_, _, _)
availableSpaceFrom(slots, itemstack, i) ==
    IF i > Len(slots) THEN 0
    ELSE LET currentSlotItem == slots[i]
             here == IF currentSlotItem = NoItem THEN maxAmount(itemstack.typeId)
                     ELSE IF currentSlotItem.typeId = itemstack.typeId
                          THEN maxAmount(itemstack.typeId) - currentSlotItem.amount
                          ELSE 0
         IN  here + availableSpaceFrom(slots, itemstack, i + 1)

getAvailableSpaceForItemStack(slots, itemstack) == availableSpaceFrom(slots, itemstack, 1)

\* container.addItem (host): tops up the stacks the item stacks with, in
\* slot order, then fills empty slots in slot order; what does not fit is
\* returned (and dropped by a caller that ignores the return value)
RECURSIVE topUp(_, _, _)
topUp(slots, stack, i) ==
    IF i > Len(slots) \/ stack.amount = 0 THEN [slots |-> slots, left |-> stack.amount]
    ELSE IF slots[i] # NoItem /\ isStackableWith(slots[i], stack)
         THEN LET room == maxAmount(stack.typeId) - slots[i].amount
                  put == Min(room, stack.amount)
              IN  topUp([slots EXCEPT ![i].amount = @ + put],
                        [stack EXCEPT !.amount = @ - put], i + 1)
         ELSE topUp(slots, stack, i + 1)

RECURSIVE fillEmpty(_, _, _)
fillEmpty(slots, stack, i) ==
    IF i > Len(slots) \/ stack.amount = 0 THEN [slots |-> slots, left |-> stack.amount]
    ELSE IF slots[i] = NoItem
         THEN LET put == Min(maxAmount(stack.typeId), stack.amount)
              IN  fillEmpty([slots EXCEPT ![i] = [stack EXCEPT !.amount = put]],
                            [stack EXCEPT !.amount = @ - put], i + 1)
         ELSE fillEmpty(slots, stack, i + 1)

addItem(slots, stack) ==
    LET topped == topUp(slots, stack, 1)
    IN  fillEmpty(topped.slots, [stack EXCEPT !.amount = topped.left], 1)

\* an entity's container: exists is FALSE when getEntityContainer returns
\* undefined (38-52)
Container(slots) == [exists |-> TRUE, slots |-> slots]
NoContainer == [exists |-> FALSE, slots |-> <<>>]

\* InventoryLibrary giveEntityItems (520-544): the container afterwards
\* and the returned remainder
giveEntityItems(cont, itemStack) ==
    IF ~cont.exists THEN [slots |-> cont.slots, remainder |-> itemStack.amount]
    ELSE LET availableSpace == getAvailableSpaceForItemStack(cont.slots, itemStack)
             itemsToAdd == Min(itemStack.amount, availableSpace)
         IN  [slots |-> IF itemsToAdd > 0
                        THEN addItem(cont.slots, ItemStack(itemStack.typeId, itemsToAdd)).slots
                        ELSE cont.slots,
              remainder |-> itemStack.amount - itemsToAdd]

\* the number of items of a type a container holds
RECURSIVE countFrom(_, _, _)
countFrom(slots, typeId, i) ==
    IF i > Len(slots) THEN 0
    ELSE (IF slots[i].typeId = typeId THEN slots[i].amount ELSE 0)
         + countFrom(slots, typeId, i + 1)

CountItems(slots, typeId) == countFrom(slots, typeId, 1)


(***************************************************************************)
(* The world: a box of cells around the players, the ground at GroundY.    *)
(***************************************************************************)
maxY == 319                   \* getStackedPlant: the maximum Y value allowed
WorldHeight == 3              \* levels of the box above the ground
GroundY == maxY - WorldHeight
Extent == ScytheReach         \* the box reaches this far in x and z

Cells ==
    {Vector3(x, y, z) : x \in -Extent .. Extent, y \in {GroundY + k : k \in 0 .. WorldHeight},
                        z \in -Extent .. Extent}

\* dimension.getBlock: undefined for a location outside the loaded world
Loaded(w, cell) == cell \in DOMAIN w

Players == {"p1"}

\* the player's feet are on the level above the ground, mid-cell
PlayerLocation == Vector3(Scale \div 2, (GroundY + 1) * Scale, Scale \div 2)

\* view directions (player.getViewDirection(), times Scale)
East == Vector3(Scale, 0, 0)
South == Vector3(0, 0, Scale)
West == Vector3(0 - Scale, 0, 0)
North == Vector3(0, 0, 0 - Scale)
SouthEast == Vector3(7071, 0, 7071)
SouthWest == Vector3(0 - 7071, 0, 7071)
NorthEast == Vector3(7071, 0, 0 - 7071)
NorthWest == Vector3(0 - 7071, 0, 0 - 7071)
EastDown == Vector3(7071, 0 - 7071, 0)
NorthEastish == Vector3(9135, 0, 0 - 4067)
SouthWestUp == Vector3(0 - 4226, 3420, 8387)
\* looking straight up and straight down: no horizontal part
StraightUp == Vector3(0, Scale, 0)
StraightDown == Vector3(0, 0 - Scale, 0)

\* the view directions of the players of the world
ViewDirections == {East, SouthEast}

\* the facings, arc widths and ranges of the sweeps called on their own
SweepFacings ==
    {East, South, West, North, SouthEast, SouthWest, NorthEast, NorthWest,
     NorthEastish, EastDown, SouthWestUp, StraightUp, StraightDown}

SweepWidths == {0, 1, 90, 180}
EntityWidths == {0, 100, 180}
MaxRange == 2
SweepRanges == 0 .. MaxRange

\* an undefined block: what dimension.getBlock and getBlockFromRay return
\* for a place outside the loaded world
NoBlock == Vector3(0, 0 - 1, 0)

(***************************************************************************)
(* BlockUtils getBlocksInSweep (InventoryLibrary(1.1.2).js 917-978).       *)
(* A block handle is the location it refers to: the host reads the type    *)
(* and states of a Block from the world when they are asked for.  The      *)
(* handle of a location outside the loaded world is undefined (NoBlock).   *)
(***************************************************************************)
\* lines 929-937: the X-Z part of the view direction, normalised; of a
\* view straight up or down it is (0 / 0, 0 / 0), NaN twice
magnitude(x, z) == Sqrt(DoubleAdd(DoubleMul(x, x), DoubleMul(z, z)))

normalised(x, z, horizontalMagnitude) ==
    [x |-> DoubleDiv(x, horizontalMagnitude), z |-> DoubleDiv(z, horizontalMagnitude)]

horizontal(x, z) == normalised(x, z, magnitude(x, z))

horizontalViewDirection(viewDirection) ==
    horizontal(Real(viewDirection.x), Real(viewDirection.z))

\* lines 948-952: the horizontal view direction turned by the angle (in
\* half degrees)
sweepVector(hvd, halfDegrees) ==
    [x |-> DoubleSub(DoubleMul(hvd.x, Cos(halfDegrees)), DoubleMul(hvd.z, Sin(halfDegrees))),
     z |-> DoubleAdd(DoubleMul(hvd.x, Sin(halfDegrees)), DoubleMul(hvd.z, Cos(halfDegrees)))]

\* lines 955-956: Math.round(sweepVector.x * distance) and
\* Math.round(sweepVector.z * distance)
targetOffset(vector, distance) ==
    [x |-> Round(DoubleMul(vector.x, DoubleOf(distance))),
     z |-> Round(DoubleMul(vector.z, DoubleOf(distance)))]

\* lines 955-956: centerX + Math.round(...), NaN when the rounded number is
targetCoordinate(center, rounded) ==
    IF rounded = NotANumber THEN NotANumber ELSE center + rounded

\* lines 959, 963, 1022: the location of the sample on the level y
sampleLocation(centerX, y, centerZ, target) ==
    Vector3(targetCoordinate(centerX, target.x), y, targetCoordinate(centerZ, target.z))

\* the cell offset sampled at this distance and angle
sweepTarget(hvd, distance, halfDegrees) ==
    targetOffset(sweepVector(hvd, halfDegrees), distance)

\* lines 945-973: the two loops, distance outer from firstDistance to
\* arcRange, angle inner from -arcWidth / 2 in steps of one degree while
\* <= arcWidth / 2.  Sample k (from 0) of the iteration order is at
\* distance firstDistance + k \div (arcWidth + 1) and at the angle
\* 2 * (k % (arcWidth + 1)) - arcWidth half degrees.
sampleDistance(arcWidth, firstDistance, k) == firstDistance + k \div (arcWidth + 1)
sampleAngle(arcWidth, k) == 2 * (k % (arcWidth + 1)) - arcWidth

sampleTarget(hvd, arcWidth, firstDistance, k) ==
    sweepTarget(hvd, sampleDistance(arcWidth, firstDistance, k), sampleAngle(arcWidth, k))

\* the number of samples the loops take
samplesOf(arcWidth, arcRange, firstDistance) ==
    IF arcRange < firstDistance THEN 0
    ELSE (arcRange - firstDistance + 1) * (arcWidth + 1)

\* the targets of the samples, in the order of the loops
sweepTargets(hvd, arcWidth, firstDistance, samples) ==
    \* (the test makes the normalised direction be computed once)
    IF Len(hvd.x.m) < 0 THEN <<>>
    ELSE [k \in 1 .. samples |-> sampleTarget(hvd, arcWidth, firstDistance, k - 1)]

\* the targets of the sweeps of the handlers and of the sweeps called on
\* their own, computed once for each view direction, distance and angle
\* (the angles of the even arc widths up to 180 and of the arc width 1)
Horizontal(viewDirection) == <<viewDirection.x, viewDirection.z>>

TableFacings == {Horizontal(v) : v \in ViewDirections \cup SweepFacings}
TableRange == IF ScytheReach > MaxRange THEN ScytheReach ELSE MaxRange
TableAngles == {2 * a : a \in (0 - 90) .. 90} \cup {0 - 1, 1}
TableWidths == {2 * a : a \in 0 .. 90} \cup {1}

DirectionTable ==
    [d \in TableFacings |-> horizontalViewDirection(Vector3(d[1], 0, d[2]))]

VectorTable ==
    [d \in TableFacings, halfDegrees \in TableAngles |->
        sweepVector(DirectionTable[d], halfDegrees)]

TargetTable ==
    [d \in TableFacings, distance \in 1 .. TableRange, halfDegrees \in TableAngles |->
        targetOffset(VectorTable[d, halfDegrees], distance)]

targetsOf(viewDirection, arcWidth, arcRange, firstDistance) ==
    IF /\ firstDistance = 1 /\ arcRange <= TableRange
       /\ Horizontal(viewDirection) \in TableFacings /\ arcWidth \in TableWidths
    THEN [k \in 1 .. samplesOf(arcWidth, arcRange, 1) |->
            TargetTable[Horizontal(viewDirection), sampleDistance(arcWidth, 1, k - 1),
                        sampleAngle(arcWidth, k - 1)]]
    ELSE sweepTargets(horizontalViewDirection(viewDirection), arcWidth, firstDistance,
                      samplesOf(arcWidth, arcRange, firstDistance))

\* BlockUtils getBlock (659-661), dimension.getBlock: undefined for a
\* location outside the loaded world, and for one that is not a number
dimensionGetBlock(loaded, location) == IF location \in loaded THEN location ELSE NoBlock

\* blocks.some(b => b.x === location.x && ...) (lines 967-968) throws a
\* TypeError when it comes to an undefined element before one that matches
someThrows(blocks, location) ==
    \E i \in 1 .. Len(blocks) :
        blocks[i] = NoBlock /\ \A j \in 1 .. (i - 1) : blocks[j] # location

\* the list of the sweep so far, and whether the sweep has thrown
SweepRun(blocks, threw) == [blocks |-> blocks, threw |-> threw]

\* a mutant: both blocks pushed without the duplicate tests
pushSampleAll(s, loaded, centerX, centerY, centerZ, target) ==
    SweepRun(Append(Append(s.blocks,
                 dimensionGetBlock(loaded, sampleLocation(centerX, centerY, centerZ,
                                                          target))),
                 dimensionGetBlock(loaded, sampleLocation(centerX, centerY + 1, centerZ,
                                                          target))),
             s.threw)

\* lines 958-971: push the current-level and the upper-level block, each
\* unless a block at its location is already in the list; both tests are
\* made before the first push
pushSample(s, loaded, centerX, centerY, centerZ, target) ==
    LET currentLevelBlockLocation == sampleLocation(centerX, centerY, centerZ, target)
        upperLevelBlockLocation == sampleLocation(centerX, centerY + 1, centerZ, target)
        isCurrentDuplicate == Contains(s.blocks, currentLevelBlockLocation)
        isUpperDuplicate == Contains(s.blocks, upperLevelBlockLocation)
        withCurrent == IF isCurrentDuplicate THEN s.blocks
                       ELSE Append(s.blocks,
                                   dimensionGetBlock(loaded, currentLevelBlockLocation))
    IN  IF s.threw THEN s
        ELSE IF \/ someThrows(s.blocks, currentLevelBlockLocation)
                \/ someThrows(s.blocks, upperLevelBlockLocation)
        THEN SweepRun(s.blocks, TRUE)
        ELSE IF isUpperDuplicate THEN SweepRun(withCurrent, FALSE)
        ELSE SweepRun(Append(withCurrent, dimensionGetBlock(loaded, upperLevelBlockLocation)),
                      FALSE)

\* the samples lo .. hi (from 1) pushed in order (split in halves to keep
\* the evaluation shallow)
RECURSIVE sweepLoop(_, _, _, _, _, _, _, _)
sweepLoop(s, loaded, centerX, centerY, centerZ, targets, lo, hi) ==
    IF lo > hi THEN s
    ELSE IF lo = hi
         THEN pushSample(s, loaded, centerX, centerY, centerZ, targets[lo])
         ELSE LET mid == (lo + hi) \div 2
                  firstHalf == sweepLoop(s, loaded, centerX, centerY, centerZ, targets,
                                         lo, mid)
              IN  \* (the test makes the first half be computed first)
                  IF firstHalf.threw THEN firstHalf
                  ELSE sweepLoop(firstHalf, loaded, centerX, centerY, centerZ, targets,
                                 mid + 1, hi)

\* what getBlocksInSweep returns, or that it threw
Swept(s, abovePlayer) ==
    IF s.threw THEN [threw |-> TRUE, value |-> <<>>]
    ELSE [threw |-> FALSE, value |-> Append(s.blocks, abovePlayer)]

sweepFrom(loaded, location, viewDirection, arcWidth, arcRange, firstDistance) ==
    \* line 975: the block above the player, pushed without a duplicate test
    Swept(sweepLoop(SweepRun(<<>>, FALSE), loaded,
                    Floor(location.x), Floor(location.y), Floor(location.z),
                    targetsOf(viewDirection, arcWidth, arcRange, firstDistance),
                    1, samplesOf(arcWidth, arcRange, firstDistance)),
          dimensionGetBlock(loaded, getBlock(addVectors(location, Vector3(0, 1 * Scale, 0)))))

\* a mutant: the distance loop starting at 0 instead of 1
getBlocksInSweepFromZero(loaded, location, viewDirection, arcWidth, arcRange) ==
    sweepFrom(loaded, location, viewDirection, arcWidth, arcRange, 0)

getBlocksInSweep(loaded, location, viewDirection, arcWidth, arcRange) ==
    sweepFrom(loaded, location, viewDirection, arcWidth, arcRange, 1)

(***************************************************************************)
(* BlockUtils getEntitiesInSweep (InventoryLibrary(1.1.2).js 989-1038).    *)
(* An entity handle is the record of the entity's id and location; the     *)
(* entities of the dimension are a sequence, in the order the host lists   *)
(* them.                                                                   *)
(***************************************************************************)
Entity(id, location) == [id |-> id, location |-> location]

\* dimension.getEntitiesAtBlockLocation: the entities whose location lies
\* in the cell
RECURSIVE entitiesAtFrom(_, _, _)
entitiesAtFrom(entities, location, i) ==
    IF i > Len(entities) THEN <<>>
    ELSE (IF getBlock(entities[i].location) = location THEN <<entities[i]>> ELSE <<>>)
         \o entitiesAtFrom(entities, location, i + 1)

getEntitiesAtBlockLocation(entities, location) == entitiesAtFrom(entities, location, 1)

\* a mutant: the entities collected in an array, not in a Set
RECURSIVE addFoundToList(_, _, _, _)
addFoundToList(foundEntities, entitiesAtCurrent, playerId, i) ==
    IF i > Len(entitiesAtCurrent) THEN foundEntities
    ELSE addFoundToList(IF entitiesAtCurrent[i].id # playerId
                        THEN Append(foundEntities, entitiesAtCurrent[i])
                        ELSE foundEntities,
                        entitiesAtCurrent, playerId, i + 1)

\* lines 1028-1033: every entity of the cell but the player is added to the
\* Set (which keeps one of each, in the order of the first add)
RECURSIVE addFound(_, _, _, _)
addFound(foundEntities, entitiesAtCurrent, playerId, i) ==
    IF i > Len(entitiesAtCurrent) THEN foundEntities
    ELSE LET entity == entitiesAtCurrent[i]
         IN  addFound(IF entity.id # playerId /\ ~Contains(foundEntities, entity)
                      THEN Append(foundEntities, entity)
                      ELSE foundEntities,
                      entitiesAtCurrent, playerId, i + 1)

\* lines 1021-1033: one sample, the cell on the player's level only
entitySample(foundEntities, entities, playerId, centerX, centerY, centerZ, target) ==
    LET currentLevelLocation == sampleLocation(centerX, centerY, centerZ, target)
    IN  addFound(foundEntities, getEntitiesAtBlockLocation(entities, currentLevelLocation),
                 playerId, 1)

\* lines 1013-1035: the two loops, the samples lo .. hi (from 1) in the
\* order of sampleTarget (split in halves to keep the evaluation shallow)
RECURSIVE entityLoop(_, _, _, _, _, _, _, _, _)
entityLoop(foundEntities, entities, playerId, centerX, centerY, centerZ, targets, lo, hi) ==
    IF lo > hi THEN foundEntities
    ELSE IF lo = hi
         THEN entitySample(foundEntities, entities, playerId, centerX, centerY, centerZ,
                           targets[lo])
         ELSE LET mid == (lo + hi) \div 2
                  firstHalf == entityLoop(foundEntities, entities, playerId,
                                          centerX, centerY, centerZ, targets, lo, mid)
              IN  IF Len(firstHalf) < 0 THEN foundEntities
                  ELSE entityLoop(firstHalf, entities, playerId, centerX, centerY, centerZ,
                                  targets, mid + 1, hi)

\* the player is an entity of the dimension: player.id, player.location,
\* player.getViewDirection()
entitiesFrom(player, entities, arcWidth, arcRange, firstDistance) ==
    entityLoop(<<>>, entities, player.id,
               Floor(player.location.x), Floor(player.location.y),
               Floor(player.location.z),
               targetsOf(player.viewDirection, arcWidth, arcRange, firstDistance),
               1, samplesOf(arcWidth, arcRange, firstDistance))

\* a mutant: the distance loop starting at 0 instead of 1
getEntitiesInSweepFromZero(player, entities, arcWidth, arcRange) ==
    entitiesFrom(player, entities, arcWidth, arcRange, 0)

\* the array made from the Set (line 1037)
getEntitiesInSweep(player, entities, arcWidth, arcRange) ==
    entitiesFrom(player, entities, arcWidth, arcRange, 1)

\* the sweeps of the handlers (arc width 180, reach of the scythe) from the
\* player's place with every cell of the box loaded, computed once for
\* each view direction
HandlerSweeps ==
    [d \in ViewDirections |-> getBlocksInSweep(Cells, PlayerLocation, d, 180, ScytheReach).value]

\* getBlocksInSweep(player, arcWidth, arcRange) in the world w
\* (the sweep made with every cell loaded is the sweep in w when w has
\* every cell of it)
sweepIn(w, player, arcWidth, arcRange, tabled) ==
    IF tabled # <<>> /\ \A i \in 1 .. Len(tabled) : Loaded(w, tabled[i])
    THEN [threw |-> FALSE, value |-> tabled]
    ELSE getBlocksInSweep(DOMAIN w, player.location, player.viewDirection,
                          arcWidth, arcRange)

blocksInSweep(w, player, arcWidth, arcRange) ==
    sweepIn(w, player, arcWidth, arcRange,
            IF /\ player.location = PlayerLocation /\ player.viewDirection \in ViewDirections
               /\ arcWidth = 180 /\ arcRange = ScytheReach
            THEN HandlerSweeps[player.viewDirection] ELSE <<>>)

\* block.above()
above(cell) == Vector3(cell.x, cell.y + 1, cell.z)

\* a mutant: the walk goes on past the blocks of another type
RECURSIVE stackedFromSkipping(_, _, _, _)
stackedFromSkipping(w, location, id, step) ==
    LET currentLocation == addVectors(location, Vector3(0, step, 0))
    IN  IF currentLocation.y > maxY \/ ~Loaded(w, currentLocation) THEN <<>>
        ELSE (IF w[currentLocation].typeId = id THEN <<currentLocation>> ELSE <<>>)
             \o stackedFromSkipping(w, location, id, step + 1)

\* lines 802-821: the loop, from the given step on
RECURSIVE stackedFrom(_, _, _, _)
stackedFrom(w, location, id, step) ==
    LET currentLocation == addVectors(location, Vector3(0, step, 0))
    IN  IF currentLocation.y > maxY THEN <<>>
        ELSE IF ~Loaded(w, currentLocation) \/ w[currentLocation].typeId # id THEN <<>>
             ELSE <<currentLocation>> \o stackedFrom(w, location, id, step + 1)

\* BlockUtils getStackedPlant (791-824): the walk starts at step 1
getStackedPlant(w, bottomPlant) ==
    stackedFrom(w, bottomPlant, w[bottomPlant].typeId, 1)

\* dimension.getBlockFromRay straight down from the block's centre with
\* excludeTypes [id]: the first block below that is neither air nor of the
\* excluded type; NoBlock when the ray leaves the world
RECURSIVE rayDown(_, _, _)
rayDown(w, cell, id) ==
    IF ~Loaded(w, cell) THEN NoBlock
    ELSE IF w[cell].typeId # Air /\ w[cell].typeId # id THEN cell
         ELSE rayDown(w, Vector3(cell.x, cell.y - 1, cell.z), id)

\* BlockUtils getSupportBlock (831-848)
getSupportBlock(w, startBlock) == rayDown(w, startBlock, w[startBlock].typeId)

\* a <= b (false when one of them is NaN)
DoubleLeq(a, b) == LET difference == DoubleSub(a, b)
                   IN  difference.s # 0 /\ (difference.m = <<>> \/ difference.s < 0)

\* BlockUtils isBlockWithinDistance (1048-1058), in the arithmetic of the
\* code: Math.pow(blockLocation.x - playerLocation.x, 2) of one coordinate
squaredDifference(blockCoordinate, playerCoordinate) ==
    LET difference == DoubleSub(DoubleOf(blockCoordinate), Real(playerCoordinate))
    IN  DoubleMul(difference, difference)

\* the squares of the first i coordinates (of x, y, z) summed from the left
RECURSIVE squaredDistance(_, _, _)
squaredDistance(blockLocation, playerLocation, i) ==
    IF i = 0 THEN Zero
    ELSE DoubleAdd(squaredDistance(blockLocation, playerLocation, i - 1),
                   squaredDifference(blockLocation[i], playerLocation[i]))

isBlockWithinDistance(block, playerLocation, distance) ==
    DoubleLeq(squaredDistance(<<block.x, block.y, block.z>>,
                              <<playerLocation.x, playerLocation.y, playerLocation.z>>, 3),
              DoubleMul(DoubleOf(distance), DoubleOf(distance)))

(***************************************************************************)
(* The random outcomes a handler consumes.  Drop counts and getRandomInt   *)
(* results are drawn by the action and handed to the handler as two tapes, *)
(* read in the order of the calls.                                         *)
(***************************************************************************)
\* ItemUtils getFortuneLevel (48-57)
getFortuneLevel(itemStack) == itemStack.fortune

RollSequences(f) == [1 .. (1 + trialsOf(f)) -> RandomValues]

\* ItemUtils getDropCount (63-74): what calculateDrops can return for the
\* held item (fortune 0 when nothing is held)
getDropCount(itemStack) ==
    LET level == IF itemStack = NoItem THEN 0 ELSE getFortuneLevel(itemStack)
    IN  {calculateDrops(level, rnd) : rnd \in RollSequences(level)}

DropCountTable == [f \in 0 .. 3 |-> getDropCount(Scythe(IronScythe, 0, f))]

\* main.js getRandomInt (125-134) for the draw k / RandomResolution
getRandomInt(min, max, k) == RandomFloor(k, max - min + 1) + min

RandomIntTable == [f \in 0 .. 3 |-> {getRandomInt(0, f, k) : k \in RandomValues}]

\* InventoryLibrary getHeldItem (503-509): the item in the selected slot,
\* NoItem for undefined
getHeldItem(player) == player.slots[player.selectedSlotIndex]

(***************************************************************************)
(* A handler run: the world and the player's slots as the handler has      *)
(* changed them so far, what it did (for the properties), and the tapes.   *)
(***************************************************************************)
Run(w, slots, drops, ints) ==
    [world |-> w, slots |-> slots, threw |-> FALSE, count |-> 0,
     gives |-> <<>>, spawned |-> <<>>, dispatch |-> <<>>, stacked |-> <<>>,
     rolled |-> <<>>, drops |-> drops, di |-> 1, ints |-> ints, ii |-> 1]

NextDrop(h) == IF h.di <= Len(h.drops) THEN h.drops[h.di] ELSE 1
NextInt(h) == IF h.ii <= Len(h.ints) THEN h.ints[h.ii] ELSE 0

\* giveEntityItems on the player, then ItemUtils spawnItems (10-13) at the
\* block for a positive remainder
giveAndSpawn(h, block, itemId, quantity) ==
    LET entry(given) ==
            [block |-> block, itemId |-> itemId, quantity |-> quantity,
             remainder |-> given.remainder,
             added |-> CountItems(given.slots, itemId) - CountItems(h.slots, itemId)]
        after(given) ==
            [h EXCEPT !.slots = given.slots,
                      !.gives = Append(@, entry(given)),
                      !.spawned = IF given.remainder > 0
                                  THEN Append(@, [block |-> block, itemId |-> itemId,
                                                  quantity |-> given.remainder])
                                  ELSE @]
    IN  after(giveEntityItems(Container(h.slots), ItemStack(itemId, quantity)))

\* block.setType: throws for a type the host does not know
setType(h, block, typeId) ==
    IF typeId \in RegisteredBlockTypes
    THEN [h EXCEPT !.world[block] = DefaultBlock(typeId)]
    ELSE [h EXCEPT !.threw = TRUE]

\* harvestCrop 691-712: one drop id after the other
RECURSIVE harvestDrops(_, _, _, _)
harvestDrops(h, crop, dropItemIds, i) ==
    IF i > Len(dropItemIds) THEN h
    ELSE LET itemId == dropItemIds[i]
             rolled == NextDrop(h)
             dropQuantity == IF isItemSeed(itemId) THEN rolled - 1 ELSE rolled
             h1 == [h EXCEPT !.di = @ + 1,
                             !.rolled = Append(@, [block |-> crop, itemId |-> itemId,
                                                   rolled |-> rolled,
                                                   quantity |-> dropQuantity])]
             h2 == IF dropQuantity > 0 THEN giveAndSpawn(h1, crop, itemId, dropQuantity)
                   ELSE h1
         IN  harvestDrops(h2, crop, dropItemIds, i + 1)

\* a mutant: the crop replanted directly, no fake block in between
harvestCropNoFake(h, crop) ==
    IF ~isCropRipe(h.world[crop]) THEN h
    ELSE setType(harvestDrops(h, crop, getCropDropItemId(h.world[crop]), 1),
                 crop, h.world[crop].typeId)

\* a mutant: the drops granted and the ripe crop left standing
harvestCropLeavingCrop(h, crop) ==
    IF ~isCropRipe(h.world[crop]) THEN h
    ELSE harvestDrops(h, crop, getCropDropItemId(h.world[crop]), 1)

\* BlockUtils harvestCrop (678-717)
harvestCrop(h, crop) ==
    LET cropName == h.world[crop].typeId.name
    IN  IF ~isCropRipe(h.world[crop]) THEN h
        ELSE setType(harvestDrops(h, crop, getCropDropItemId(h.world[crop]), 1),
                     crop, Fake(cropName))

\* the player with the slots as the handler has changed them so far
playerNow(h, player) == [player EXCEPT !.slots = h.slots]

\* BlockUtils harvestSinglePlant (764-784): getFortuneLevel throws on the
\* undefined item of an empty held slot, read when the function is called
harvestSinglePlant(h, player, block, dropId, fakeBlockId) ==
    LET quantity == 1 + NextInt(h)
    IN  IF getHeldItem(playerNow(h, player)) = NoItem THEN [h EXCEPT !.threw = TRUE]
        ELSE setType(giveAndSpawn([h EXCEPT !.ii = @ + 1], block, dropId, quantity),
                     block,
                     IF isBlockWithinDistance(block, player.location, 10)
                     THEN fakeBlockId ELSE Air)

RECURSIVE harvestEach(_, _, _, _, _, _)
harvestEach(h, player, blocks, dropId, fakeBlockId, i) ==
    IF i > Len(blocks) \/ h.threw THEN h
    ELSE harvestEach(harvestSinglePlant(h, player, blocks[i], dropId, fakeBlockId),
                     player, blocks, dropId, fakeBlockId, i + 1)

\* a mutant: a plant without a support block is skipped silently
harvestStackedSkipping(h, player, block, dropId, fakeBlockId) ==
    LET supportBlock == getSupportBlock(h.world, block)
    IN  IF supportBlock = NoBlock THEN h
        ELSE harvestEach(h, player, getStackedPlant(h.world, above(supportBlock)),
                         dropId, fakeBlockId, 1)

\* BlockUtils harvestSugarcane (724-735) and harvestBamboo (742-753):
\* supportBlock.above() throws when no support block was found
harvestStacked(h, player, block, dropId, fakeBlockId) ==
    LET supportBlock == getSupportBlock(h.world, block)
    IN  IF supportBlock = NoBlock THEN [h EXCEPT !.threw = TRUE]
        ELSE LET bottomPlant == above(supportBlock)
                 plantBlocks == getStackedPlant(h.world, bottomPlant)
                 h1 == [h EXCEPT !.stacked =
                            Append(@, [struck |-> block, bottom |-> bottomPlant,
                                       blocks |-> plantBlocks, world |-> h.world])]
             IN  harvestEach(h1, player, plantBlocks, dropId, fakeBlockId, 1)

harvestSugarcane(h, player, block) ==
    harvestStacked(h, player, block, "minecraft:sugar_cane", Fake(<<"sugar_cane">>))

harvestBamboo(h, player, block) ==
    harvestStacked(h, player, block, "minecraft:bamboo", Fake(<<"bamboo">>))

\* BlockUtils destroyBlock (566-573): setblock x y z air destroy
destroyBlock(h, block) == [h EXCEPT !.world[block] = DefaultBlock(Air)]


(***************************************************************************)
(* BlockUtils multiHarvestArc (856-884) and destroyBlocksArc (892-907).    *)
(* The sounds (scythe.whoosh, scythe.shing) and their random pitch change  *)
(* no state of the model and are left out.                                 *)
(***************************************************************************)
\* lines 866-880: the if / else-if chain, as the call it selects
dispatch(b) ==
    IF isBlockCrop(b) THEN (IF isCropRipe(b) THEN "harvestCrop" ELSE "none")
    ELSE IF isBlockSugarcane(b) THEN "harvestSugarcane"
    ELSE IF isBlockBamboo(b) THEN "harvestBamboo"
    ELSE IF isBlockScytheDestructable(b) THEN "destroyBlock"
    ELSE "none"

\* processedBlockCount++ stands in every branch that calls something
counted(action) == action # "none"

processBlock(h, player, block, action) ==
    CASE action = "harvestCrop" -> harvestCrop(h, block)
      [] action = "harvestSugarcane" -> harvestSugarcane(h, player, block)
      [] action = "harvestBamboo" -> harvestBamboo(h, player, block)
      [] action = "destroyBlock" -> destroyBlock(h, block)
      [] OTHER -> h

\* one iteration of the loop, with its entry in the dispatch log; reading
\* the type of an undefined block (outside the loaded world) throws
RECURSIVE harvestLoop(_, _, _, _)
harvestLoop(h, player, blocks, i) ==
    IF i > Len(blocks) \/ h.threw THEN h
    ELSE IF ~Loaded(h.world, blocks[i]) THEN [h EXCEPT !.threw = TRUE]
    ELSE LET block == blocks[i]
             before == h.world[block]
             entry(h1, action) ==
                 [block |-> block, before |-> before, action |-> action,
                  after |-> h1.world[block],
                  counted |-> counted(action) /\ ~h1.threw,
                  effect |-> h1.world # h.world \/ h1.gives # h.gives]
             logged(h1, action) ==
                 [h1 EXCEPT !.dispatch = Append(@, entry(h1, action)),
                            !.count = IF counted(action) /\ ~h1.threw THEN @ + 1 ELSE @]
             step(action) == logged(processBlock(h, player, block, action), action)
         IN  harvestLoop(step(dispatch(before)), player, blocks, i + 1)

\* line 858: a sweep that throws ends the call before the loop
multiHarvestArc(h, player, arcWidth, arcRange) ==
    LET blocksToHarvest == blocksInSweep(h.world, player, arcWidth, arcRange)
    IN  IF blocksToHarvest.threw THEN [h EXCEPT !.threw = TRUE]
        ELSE harvestLoop(h, player, blocksToHarvest.value, 1)

RECURSIVE destroyLoop(_, _, _)
destroyLoop(h, blocks, i) ==
    IF i > Len(blocks) \/ h.threw THEN h
    ELSE IF ~Loaded(h.world, blocks[i]) THEN [h EXCEPT !.threw = TRUE]
    ELSE LET block == blocks[i]
             before == h.world[block]
             hit == before.typeId \in scytheDestructable
             h1 == IF hit THEN destroyBlock(h, block) ELSE h
             entry == [block |-> block, before |-> before,
                       action |-> IF hit THEN "destroyBlock" ELSE "none",
                       after |-> h1.world[block], counted |-> hit,
                       effect |-> h1.world # h.world]
         IN  destroyLoop([h1 EXCEPT !.dispatch = Append(@, entry),
                                    !.count = IF hit THEN @ + 1 ELSE @],
                         blocks, i + 1)

\* a mutant: the hit-block entry point harvesting like the use-on one
destroyBlocksArcHarvesting(h, player, arcWidth, arcRange) ==
    multiHarvestArc(h, player, arcWidth, arcRange)

\* line 894: a sweep that throws ends the call before the loop
destroyBlocksArc(h, player, arcWidth, arcRange) ==
    LET blocksToDestroy == blocksInSweep(h.world, player, arcWidth, arcRange)
    IN  IF blocksToDestroy.threw THEN [h EXCEPT !.threw = TRUE]
        ELSE destroyLoop(h, blocksToDestroy.value, 1)

(***************************************************************************)
(* Tool wear: OnUseOnScytheHarvest.onUseOn 32-44 and main.js 90-102.       *)
(***************************************************************************)
\* a mutant: the tool breaks one use early (>= for >)
wearBreaksEarly(slots, selectedSlotIndex, scythe) ==
    IF scythe.damage + 1 >= ScytheMaxDurability
    THEN [slots |-> [slots EXCEPT ![selectedSlotIndex] = NoItem], broken |-> TRUE]
    ELSE [slots |-> [slots EXCEPT ![selectedSlotIndex] =
                        [scythe EXCEPT !.damage = @ + 1]],
          broken |-> FALSE]

\* a mutant: the worn-out tool kept, its damage raised past the maximum
wearPastMaximum(slots, selectedSlotIndex, scythe) ==
    [slots |-> [slots EXCEPT ![selectedSlotIndex] = [scythe EXCEPT !.damage = @ + 1]],
     broken |-> FALSE]

\* the slots after the wear of one pass, and whether random.break played
wear(slots, selectedSlotIndex, scythe) ==
    LET modifiedItem == scythe
    IN  IF modifiedItem.damage + 1 > ScytheMaxDurability
        THEN [slots |-> [slots EXCEPT ![selectedSlotIndex] = NoItem], broken |-> TRUE]
        ELSE [slots |-> [slots EXCEPT ![selectedSlotIndex] =
                            [modifiedItem EXCEPT !.damage = @ + 1]],
              broken |-> FALSE]


(***************************************************************************)
(* The event handlers.  Each action is one host event handled to the end.  *)
(***************************************************************************)
MaxEvents == 2                \* player events and growth steps per behaviour

Idle == [handler |-> "none", threw |-> FALSE, count |-> NoResult,
         gives |-> <<>>, spawned |-> <<>>, dispatch |-> <<>>, stacked |-> <<>>,
         rolled |-> <<>>, heldBefore |-> NoItem, broken |-> FALSE]

Report(handler, h, heldBefore, broken) ==
    [handler |-> handler, threw |-> h.threw,
     count |-> IF h.threw THEN NoResult ELSE h.count,
     gives |-> h.gives, spawned |-> h.spawned, dispatch |-> h.dispatch,
     stacked |-> h.stacked, rolled |-> h.rolled, heldBefore |-> heldBefore,
     broken |-> broken]

Tapes(dry, scythe) ==
    [1 .. (dry.di - 1) -> DropCountTable[clampedFortune(getFortuneLevel(scythe))]]
    \X [1 .. (dry.ii - 1) -> RandomIntTable[getFortuneLevel(scythe)]]

\* OnUseOnScytheHarvest.onUseOn (13-46): the custom component of the
\* scythes that harvest in an arc
UseOn(p) ==
    LET player == players[p]
        scythe == getHeldItem(player)
        reach == reachOf(scythe)
        worn(h, harvestAmount) ==
            IF ~h.threw /\ harvestAmount > 0
            THEN wear(h.slots, player.selectedSlotIndex, scythe)
            ELSE [slots |-> h.slots, broken |-> FALSE]
        done(h, w) ==
            /\ world' = h.world
            /\ players' = [players EXCEPT ![p].slots = w.slots]
            /\ last' = Report("useOn", h, scythe, w.broken)
        handled(h) == done(h, worn(h, h.count))
    IN  /\ eventCount < MaxEvents
        /\ scythe.typeId = IronScythe
        /\ \E tapes \in Tapes(multiHarvestArc(Run(world, player.slots, <<>>, <<>>),
                                              player, 180, reach), scythe) :
             handled(multiHarvestArc(Run(world, player.slots, tapes[1], tapes[2]),
                                     player, 180, reach))
        /\ eventCount' = eventCount + 1
        /\ UNCHANGED <<fortuneLevel, rolls, dropResult, container, request, remainder,
                       probe, answer, dimension, hurtEvents>>

\* WoodenScythe.onUseOn (8-13): harvestCrop on the block the item is used on
WoodenUseOn(p, block) ==
    LET player == players[p]
        scythe == getHeldItem(player)
        handled(h) ==
            /\ world' = h.world
            /\ players' = [players EXCEPT ![p].slots = h.slots]
            /\ last' = [Report("woodenUseOn", h, scythe, FALSE)
                           EXCEPT !.dispatch = <<[block |-> block,
                               before |-> world[block], action |-> "harvestCrop",
                               after |-> h.world[block], counted |-> FALSE,
                               effect |-> h.world # world \/ h.gives # <<>>]>>]
    IN  /\ eventCount < MaxEvents
        /\ scythe.typeId = WoodenScytheId
        /\ world[block].typeId # Air
        /\ \E tapes \in Tapes(harvestCrop(Run(world, player.slots, <<>>, <<>>), block),
                              scythe) :
             handled(harvestCrop(Run(world, player.slots, tapes[1], tapes[2]), block))
        /\ eventCount' = eventCount + 1
        /\ UNCHANGED <<fortuneLevel, rolls, dropResult, container, request, remainder,
                       probe, answer, dimension, hurtEvents>>

\* a mutant: the wooden scythe destroys in an arc like the others
sweepsOnHitAnyScythe(heldItem) == TRUE

\* main.js 83: "Wooden scythe behaves a little differently"
sweepsOnHit(heldItem) == heldItem.typeId # WoodenScytheId

\* main.js entityHitBlock (62-105), the damaging entity a player
HitBlock(p) ==
    LET player == players[p]
        heldItem == getHeldItem(player)
        pass == heldItem # NoItem /\ hasScytheTag(heldItem) /\ sweepsOnHit(heldItem)
        worn(h, processedBlockCount) ==
            IF pass /\ ~h.threw /\ processedBlockCount > 0
            THEN wear(h.slots, player.selectedSlotIndex, heldItem)
            ELSE [slots |-> h.slots, broken |-> FALSE]
        done(h, w) ==
            /\ world' = h.world
            /\ players' = [players EXCEPT ![p].slots = w.slots]
            /\ last' = [Report("hitBlock", h, heldItem, w.broken)
                           EXCEPT !.count = IF pass /\ ~h.threw THEN h.count ELSE NoResult]
        handled(h) == done(h, worn(h, h.count))
    IN  /\ eventCount < MaxEvents
        /\ handled(IF pass
                   THEN destroyBlocksArc(Run(world, player.slots, <<>>, <<>>), player, 180,
                                         reachOf(heldItem))
                   ELSE Run(world, player.slots, <<>>, <<>>))
        /\ eventCount' = eventCount + 1
        /\ UNCHANGED <<fortuneLevel, rolls, dropResult, container, request, remainder,
                       probe, answer, dimension, hurtEvents>>

\* the blocks that carry the djc:tick_break_crop component: the fake blocks
isFake(block) == block.typeId.ns = "djc" /\ block.typeId.name[1] = "fake_"

\* tickBreakCrop.js TickBreakCrop.onTick (7-15): setblock air destroy, then
\* setType, which throws for an unknown type, then withState("growth", 0),
\* which throws for a block without that state
\* a mutant: the fake block broken and nothing set in its place
onTickNoReplant(w, block) == [w EXCEPT ![block] = DefaultBlock(Air)]

onTick(w, block) ==
    LET blockId == Tail(w[block].typeId.name)
        newType == TypeId("minecraft", blockId)
    IN  IF newType \in RegisteredBlockTypes
        THEN [w EXCEPT ![block] = DefaultBlock(newType)]
        ELSE [w EXCEPT ![block] = DefaultBlock(Air)]

\* whether onTick throws: at setType (line 13) for minecraft:sugar_cane,
\* which is no block type, or at withState (line 14) for bamboo, which has
\* no growth state
onTickThrows(w, block) ==
    LET blockId == Tail(w[block].typeId.name)
        newType == TypeId("minecraft", blockId)
    IN  newType \notin RegisteredBlockTypes \/ newType \notin GrowthTypes

Tick(block) ==
    /\ isFake(world[block])
    /\ world' = onTick(world, block)
    /\ last' = [Idle EXCEPT !.handler = "tick", !.threw = onTickThrows(world, block)]
    /\ UNCHANGED <<fortuneLevel, rolls, dropResult, container, request, remainder,
                   probe, answer, players, eventCount, dimension, hurtEvents>>

\* the host grows a crop by one stage (a random tick of the game)
Grow(block) ==
    /\ eventCount < MaxEvents
    /\ isBlockCrop(world[block])
    /\ world[block].growth < 7
    /\ world' = [world EXCEPT ![block].growth = @ + 1]
    /\ last' = [Idle EXCEPT !.handler = "grow"]
    /\ eventCount' = eventCount + 1
    /\ UNCHANGED <<fortuneLevel, rolls, dropResult, container, request, remainder,
                   probe, answer, players, dimension, hurtEvents>>

(***************************************************************************)
(* The initial worlds: dirt ground, air above, and on three sites next to  *)
(* the player a column of blocks standing on the ground.                   *)
(***************************************************************************)
SiteFront == [x |-> 1, z |-> 0]
SiteSide == [x |-> 0, z |-> 1]
SiteBehind == [x |-> 0 - 1, z |-> 0]

Ripe(typeId) == Block(typeId, 7)
Plain(typeId) == Block(typeId, NoState)

FrontColumns ==
    {<<>>, <<Ripe(Wheat)>>, <<Block(Wheat, 6)>>, <<Ripe(Carrots)>>, <<Block(Carrots, 6)>>,
     <<Ripe(Potatoes)>>, <<Ripe(Beetroot)>>, <<Plain(Reeds)>>, <<Plain(Reeds), Plain(Reeds)>>,
     <<Plain(Reeds), Plain(Reeds), Plain(Reeds)>>, <<Plain(Bamboo), Plain(Bamboo)>>,
     <<Plain(TallGrass)>>, <<Ripe(MelonStem)>>, <<Plain(Dirt)>>}

SideColumns == {<<>>, <<Plain(TallGrass)>>}

BehindColumns == {<<Ripe(Wheat)>>}

ColumnAt(site, cell) == cell.x = site.x /\ cell.z = site.z

WorldOf(front, side, behind) ==
    [cell \in Cells |->
        LET level == cell.y - GroundY
            column == IF ColumnAt(SiteFront, cell) THEN front
                      ELSE IF ColumnAt(SiteSide, cell) THEN side
                      ELSE IF ColumnAt(SiteBehind, cell) THEN behind
                      ELSE <<>>
        IN  IF level = 0 THEN Plain(Dirt)
            ELSE IF level <= Len(column) THEN column[level]
            ELSE Plain(Air)]

\* a plant over a hole in the ground: nothing below it down to the void
FloatingColumns == {<<Plain(Reeds)>>, <<Plain(Bamboo)>>}

WithoutGround(w, site) ==
    [w EXCEPT ![Vector3(site.x, GroundY, site.z)] = Plain(Air)]

HeldItems ==
    {Scythe(IronScythe, 0, 0), Scythe(IronScythe, ScytheMaxDurability, 0),
     Scythe(IronScythe, 0, 1), Scythe(WoodenScytheId, 0, 0)}

OtherSlots ==
    {NoItem, ItemStack("minecraft:wheat", StackLimit - 2),
     Named(ItemStack("minecraft:wheat", StackLimit - 1), "Gift")}

IdleDrops == fortuneLevel = 0 /\ rolls = <<>> /\ dropResult = NoResult
IdleGive == container = NoContainer /\ request = NoItem /\ remainder = NoResult
IdleProbe == probe = <<>> /\ answer = [done |-> FALSE, value |-> <<>>]
IdleHurt == dimension = <<>> /\ hurtEvents = <<>>
IdleWorld ==
    /\ world = WorldOf(<<>>, <<>>, <<>>)
    /\ players = [p \in Players |->
                    [location |-> PlayerLocation, viewDirection |-> East,
                     selectedSlotIndex |-> 1, slots |-> <<NoItem, NoItem>>]]
    /\ eventCount = 0
    /\ last = Idle

Init ==
    /\ IdleDrops /\ IdleGive /\ IdleProbe /\ IdleHurt
    /\ \E front \in FrontColumns, behind \in BehindColumns :
         \/ \E side \in SideColumns : world = WorldOf(front, side, behind)
         \/ \E side \in FloatingColumns :
               world = WithoutGround(WorldOf(front, side, behind), SiteSide)
    /\ players \in [Players ->
                     {[location |-> PlayerLocation, viewDirection |-> d,
                       selectedSlotIndex |-> 1, slots |-> <<held, other>>] :
                        d \in ViewDirections, held \in HeldItems, other \in OtherSlots}]
    /\ eventCount = 0
    /\ last = Idle

Next ==
    \/ \E p \in Players : UseOn(p)
    \/ \E p \in Players, block \in Cells : WoodenUseOn(p, block)
    \/ \E p \in Players : HitBlock(p)
    \/ \E block \in Cells : Tick(block)
    \/ \E block \in Cells : Grow(block)

Spec == Init /\ [][Next]_vars

\* the held slot of the player, now
HeldNow(p) == players[p].slots[players[p].selectedSlotIndex]

\* the cell k levels above a cell
Up(cell, k) == Vector3(cell.x, cell.y + k, cell.z)

\* the height of the column of blocks of one type that stands on a cell
ColumnHeight(w, bottom) ==
    Cardinality({k \in 0 .. WorldHeight :
                    \A j \in 0 .. k : /\ Loaded(w, Up(bottom, j))
                                      /\ w[Up(bottom, j)].typeId = w[bottom].typeId})

StackedTypes == {Reeds, Bamboo}

\* C1: on a column of n consecutive blocks of one plant type the column
\* discovery returns exactly the n blocks, from the bottom block upward,
\* so that every block of the column, the bottom one included, is harvested
C1StackedPlantIsWholeColumn ==
    (last.handler = "useOn" /\ ~last.threw) =>
        \A i \in 1 .. Len(last.stacked) :
            LET call == last.stacked[i]
                n == ColumnHeight(call.world, call.bottom)
            IN  call.world[call.bottom].typeId \in StackedTypes =>
                    /\ Len(call.blocks) = n
                    /\ \A k \in 1 .. Len(call.blocks) : call.blocks[k] = Up(call.bottom, k - 1)
                    /\ \A k \in 0 .. (n - 1) :
                           world[Up(call.bottom, k)].typeId \notin StackedTypes

\* the deposits (giveEntityItems calls) of an item made for a block
DepositsOf(block, itemId) ==
    {i \in 1 .. Len(last.gives) :
        last.gives[i].block = block /\ last.gives[i].itemId = itemId}

\* C4: harvesting a ripe wheat block with an unenchanted tool makes exactly
\* one wheat deposit of 1 .. 4 items and a wheat_seeds deposit of 0 .. 3
\* items (none when it is 0), and the block is fake wheat when harvestCrop
\* returns
C4RipeWheatHarvest ==
    (last.handler \in {"useOn", "woodenUseOn"} /\ getFortuneLevel(last.heldBefore) = 0) =>
        \A i \in 1 .. Len(last.dispatch) :
            LET entry == last.dispatch[i]
            IN  (entry.action = "harvestCrop" /\ entry.before = Block(Wheat, 7)) =>
                    /\ Cardinality(DepositsOf(entry.block, "minecraft:wheat")) = 1
                    /\ \A d \in DepositsOf(entry.block, "minecraft:wheat") :
                           last.gives[d].quantity \in 1 .. 4
                    /\ Cardinality(DepositsOf(entry.block, "minecraft:wheat_seeds")) <= 1
                    /\ \A d \in DepositsOf(entry.block, "minecraft:wheat_seeds") :
                           last.gives[d].quantity \in 1 .. 3
                    /\ \A d \in 1 .. Len(last.gives) :
                           last.gives[d].block = entry.block =>
                               last.gives[d].itemId \in {"minecraft:wheat",
                                                         "minecraft:wheat_seeds"}
                    /\ entry.after = Block(Fake(<<"wheat">>), NoState)

\* ripe wheat harvested by an unenchanted scythe for four wheat and three
\* seeds
C4Witness ==
    /\ last.handler = "useOn" /\ getFortuneLevel(last.heldBefore) = 0
    /\ \E i \in 1 .. Len(last.dispatch) :
          /\ last.dispatch[i].before = Block(Wheat, 7)
          /\ last.dispatch[i].after = Block(Fake(<<"wheat">>), NoState)
    /\ \E d \in 1 .. Len(last.gives) :
          last.gives[d].itemId = "minecraft:wheat" /\ last.gives[d].quantity = 4
    /\ \E d \in 1 .. Len(last.gives) :
          last.gives[d].itemId = "minecraft:wheat_seeds" /\ last.gives[d].quantity = 3

\* C5: wear is applied only on a use-on or hit-block pass whose processed
\* count is above 0: the held slot is emptied and the break sound played
\* when damage + 1 would exceed the maximum durability, otherwise the tool
\* is written back with its damage increased by exactly 1; a pass with
\* processed count 0 leaves the held item unchanged
C5WearOnlyOnProcessedPass ==
    last.handler \in {"useOn", "hitBlock"} =>
        \A p \in Players :
            IF last.count > 0
            THEN IF last.heldBefore.damage + 1 > ScytheMaxDurability
                 THEN HeldNow(p) = NoItem /\ last.broken
                 ELSE /\ HeldNow(p) = [last.heldBefore EXCEPT !.damage = @ + 1]
                      /\ ~last.broken
            ELSE HeldNow(p) = last.heldBefore /\ ~last.broken

\* a pass that processed a block with the tool at its last point of
\* durability: the tool broke
C5Witness ==
    /\ last.handler \in {"useOn", "hitBlock"} /\ last.count > 0
    /\ last.heldBefore.damage = ScytheMaxDurability
    /\ last.broken /\ \A p \in Players : HeldNow(p) = NoItem

\* the blocks of the column a stacked plant block stands in, as the call
\* for the block found the world
WholeColumn(block) ==
    UNION {{Up(last.stacked[i].bottom, k) :
                k \in 0 .. (ColumnHeight(last.stacked[i].world, last.stacked[i].bottom) - 1)} :
           i \in {j \in 1 .. Len(last.stacked) : last.stacked[j].struck = block}}

\* C7: multiHarvestArc gives each block of the sweep to exactly one action
\* by its category: a ripe crop is harvested, a sugarcane or bamboo block
\* has its whole column harvested, a scythe-destructible block is
\* destroyed, and any other block, an unripe crop included (even of a
\* destructible type), is left unchanged
C7DispatchByCategory ==
    (last.handler = "useOn" /\ ~last.threw) =>
        \A i \in 1 .. Len(last.dispatch) :
            LET entry == last.dispatch[i]
                b == entry.before
            IN  /\ (isBlockCrop(b) /\ b.growth = 7) =>
                       /\ entry.action = "harvestCrop"
                       /\ entry.after.typeId = Fake(b.typeId.name)
                /\ (b.typeId \in StackedTypes) =>
                       /\ entry.action = IF b.typeId = Reeds THEN "harvestSugarcane"
                                         ELSE "harvestBamboo"
                       /\ entry.block \in WholeColumn(entry.block)
                       /\ \A c \in WholeColumn(entry.block) :
                              world[c].typeId \notin StackedTypes
                /\ (b.typeId \in scytheDestructable /\ ~isBlockCrop(b)) =>
                       /\ entry.action = "destroyBlock"
                       /\ entry.after.typeId = Air
                /\ (\/ isBlockCrop(b) /\ b.growth # 7
                    \/ /\ ~isBlockCrop(b) /\ b.typeId \notin StackedTypes
                       /\ b.typeId \notin scytheDestructable) =>
                       /\ entry.action = "none"
                       /\ entry.after = b

\* C8: the count multiHarvestArc returns is the number of sweep blocks that
\* were actually processed: every counted block had a harvest or destroy
\* effect (drops granted, a block replaced or removed), skipped blocks
\* count 0, and so a count above 0 means the pass changed a block
C8CountIsProcessedBlocks ==
    (last.handler = "useOn" /\ ~last.threw) =>
        /\ last.count = Cardinality({i \in 1 .. Len(last.dispatch) :
                                        last.dispatch[i].counted})
        /\ \A i \in 1 .. Len(last.dispatch) :
               /\ last.dispatch[i].counted => last.dispatch[i].effect
               /\ last.dispatch[i].action = "none" => ~last.dispatch[i].counted
        /\ last.count > 0 =>
               \E i \in 1 .. Len(last.dispatch) :
                   last.dispatch[i].after # last.dispatch[i].before

\* the world items of an item spawned at a block
SpawnsOf(block, itemId) ==
    {i \in 1 .. Len(last.spawned) :
        last.spawned[i].block = block /\ last.spawned[i].itemId = itemId}

RECURSIVE SumOfSpawns(_)
SumOfSpawns(indices) ==
    IF indices = {} THEN 0
    ELSE LET i == CHOOSE k \in indices : TRUE
         IN  last.spawned[i].quantity + SumOfSpawns(indices \ {i})

\* C14: in harvestCrop, for each drop id with a computed quantity q > 0,
\* the amount deposited into the player's inventory plus the amount spawned
\* as a world item at the crop is q, the world item being the part that did
\* not fit; for q = 0 nothing is deposited and nothing is spawned
C14HarvestConservesDrops ==
    last.handler \in {"useOn", "woodenUseOn"} =>
        \A r \in 1 .. Len(last.rolled) :
            LET drop == last.rolled[r]
                deposits == DepositsOf(drop.block, drop.itemId)
                spawns == SpawnsOf(drop.block, drop.itemId)
            IN  IF drop.quantity > 0
                THEN /\ Cardinality(deposits) = 1
                     /\ Cardinality(spawns) <= 1
                     /\ \A d \in deposits :
                            /\ last.gives[d].quantity = drop.quantity
                            /\ last.gives[d].added + SumOfSpawns(spawns) = drop.quantity
                            /\ SumOfSpawns(spawns) = last.gives[d].remainder
                ELSE deposits = {} /\ spawns = {}

\* the cells of the column a block stands in
ColumnOf(block) == {c \in Cells : c.x = block.x /\ c.z = block.z}

\* nothing below the block but air and blocks of its own type: the ray
\* down from it finds no support block
NoSupportBelow(w, block) ==
    \A c \in ColumnOf(block) : c.y < block.y => w[c].typeId \in {Air, w[block].typeId}

\* the items of a type the deposits of the last handler added
RECURSIVE SumOfAdded(_, _)
SumOfAdded(itemId, d) ==
    IF d > Len(last'.gives) THEN 0
    ELSE (IF last'.gives[d].itemId = itemId THEN last'.gives[d].added ELSE 0)
         + SumOfAdded(itemId, d + 1)

\* C17: when the ray down from a struck sugarcane / bamboo block finds no
\* support block, the column is not harvested (none of its blocks changes,
\* no drops are granted for it) and the exception ends the event handler:
\* no later block is processed, what the handler did to the earlier blocks
\* of the sweep stays (blocks replaced, drops deposited), and no tool wear
\* is applied
C17NoSupportEndsHandler ==
    [][\A i \in 1 .. Len(last'.dispatch) :
          LET struck == last'.dispatch[i]
          IN  (/\ last'.handler = "useOn"
               /\ struck.action \in {"harvestSugarcane", "harvestBamboo"}
               /\ NoSupportBelow(world', struck.block))
              => /\ last'.threw /\ i = Len(last'.dispatch)
                 /\ \A c \in ColumnOf(struck.block) : world'[c] = world[c]
                 /\ \A d \in 1 .. Len(last'.gives) :
                        last'.gives[d].block \notin ColumnOf(struck.block)
                 /\ \A d \in 1 .. Len(last'.spawned) :
                        last'.spawned[d].block \notin ColumnOf(struck.block)
                 /\ \A j \in 1 .. (i - 1) :
                        world'[last'.dispatch[j].block] = last'.dispatch[j].after
                 /\ \A p \in Players :
                        /\ \A d \in 1 .. Len(last'.gives) :
                               CountItems(players'[p].slots, last'.gives[d].itemId)
                                   = CountItems(players[p].slots, last'.gives[d].itemId)
                                     + SumOfAdded(last'.gives[d].itemId, 1)
                        /\ players'[p].slots[players[p].selectedSlotIndex]
                               = players[p].slots[players[p].selectedSlotIndex]
                 /\ ~last'.broken
      ]_vars

\* a pass that harvested the ripe wheat in front of the player into the
\* inventory and then struck the sugarcane over the hole: the wheat block
\* is the fake block, the sugarcane stands, the scythe is as it was
C17Witness ==
    /\ last.handler = "useOn" /\ last.threw
    /\ Len(last.dispatch) > 1
    /\ last.dispatch[Len(last.dispatch)].action = "harvestSugarcane"
    /\ world[last.dispatch[Len(last.dispatch)].block].typeId = Reeds
    /\ \E j \in 1 .. Len(last.dispatch) :
          /\ last.dispatch[j].action = "harvestCrop"
          /\ world[last.dispatch[j].block].typeId = Fake(<<"wheat">>)
    /\ \E d \in 1 .. Len(last.gives) : last.gives[d].added > 0
    /\ \A p \in Players : HeldNow(p) = last.heldBefore

\* the blocks the sweep of the last handler met
SweptBlocks == {last'.dispatch[i].block : i \in 1 .. Len(last'.dispatch)}

\* C18: the hit-block entry point, destroyBlocksArc, destroys exactly the
\* blocks of its sweep whose type is configured scythe-destructible and
\* returns their number; it harvests nothing: every other block, crops,
\* sugarcane and bamboo included, is left as it is, and the player's
\* inventory receives no items (the held scythe may wear)
C18HitBlockOnlyDestroys ==
    [][last'.handler = "hitBlock" =>
          /\ \A c \in Cells :
                IF c \in SweptBlocks /\ world[c].typeId \in scytheDestructable
                THEN world'[c] = Block(Air, NoState)
                ELSE world'[c] = world[c]
          /\ last'.count # NoResult =>
                last'.count = Cardinality({c \in SweptBlocks :
                                              world[c].typeId \in scytheDestructable})
          /\ last'.count = NoResult => SweptBlocks = {}
          /\ \A i \in 1 .. Len(last'.dispatch) :
                last'.dispatch[i].action \in {"destroyBlock", "none"}
          /\ last'.gives = <<>> /\ last'.spawned = <<>>
          /\ \A p \in Players :
                \A k \in 1 .. Len(players[p].slots) :
                    IF k = players[p].selectedSlotIndex
                    THEN \/ players'[p].slots[k] = players[p].slots[k]
                         \/ players'[p].slots[k] = NoItem
                         \/ players'[p].slots[k]
                                = [players[p].slots[k] EXCEPT !.damage = @ + 1]
                    ELSE players'[p].slots[k] = players[p].slots[k]
      ]_vars

\* a hit that destroyed the tall grass at the player's side and left the
\* ripe wheat in front standing
C18Witness ==
    /\ last.handler = "hitBlock" /\ last.count = 1
    /\ \E i \in 1 .. Len(last.dispatch) :
          /\ last.dispatch[i].before = Plain(TallGrass)
          /\ last.dispatch[i].after = Plain(Air)
    /\ \E i \in 1 .. Len(last.dispatch) :
          /\ last.dispatch[i].before = Ripe(Wheat)
          /\ world[last.dispatch[i].block] = Ripe(Wheat)
    /\ \A p \in Players : CountItems(players[p].slots, "minecraft:wheat") = 0

\* the drop ids harvestCrop takes one from, and those it grants in full
ReplantSeeds ==
    {"minecraft:wheat_seeds", "minecraft:beetroot_seeds", "minecraft:carrot",
     "minecraft:potato"}
FullDrops == {"minecraft:wheat", "minecraft:beetroot"}

\* C15: harvestCrop subtracts one from the rolled quantity of exactly the
\* drop ids that are the seed used to replant (wheat_seeds, beetroot_seeds,
\* carrot, potato) and grants wheat and beetroot in full; so a ripe carrot
\* or potato harvested with an unenchanted tool grants 0 .. 3 items
C15SeedDropsLoseOne ==
    last.handler \in {"useOn", "woodenUseOn"} =>
        \A r \in 1 .. Len(last.rolled) :
            LET drop == last.rolled[r]
            IN  /\ drop.itemId \in ReplantSeeds \cup FullDrops
                /\ drop.rolled \in getDropCount(last.heldBefore)
                /\ drop.itemId \in ReplantSeeds => drop.quantity = drop.rolled - 1
                /\ drop.itemId \in FullDrops => drop.quantity = drop.rolled
                /\ \A d \in DepositsOf(drop.block, drop.itemId) :
                       last.gives[d].quantity = drop.quantity
                /\ (/\ getFortuneLevel(last.heldBefore) = 0
                    /\ drop.itemId \in {"minecraft:carrot", "minecraft:potato"})
                   => drop.quantity \in 0 .. 3

\* a ripe potato crop harvested for three potatoes of a roll of four
C15Witness ==
    /\ last.handler = "useOn" /\ getFortuneLevel(last.heldBefore) = 0
    /\ \E r \in 1 .. Len(last.rolled) :
          /\ last.rolled[r].itemId = "minecraft:potato"
          /\ last.rolled[r].rolled = 4 /\ last.rolled[r].quantity = 3
          /\ \E d \in DepositsOf(last.rolled[r].block, "minecraft:potato") :
                last.gives[d].quantity = 3


(***************************************************************************)
(* The crop lifecycle.  The host fires the tick callback of every block    *)
(* that carries the tick component: weak fairness of Tick on each cell.    *)
(***************************************************************************)
InitLife ==
    /\ Init
    /\ \A p \in Players :
          /\ players[p].viewDirection = East
          /\ players[p].slots \in {<<Scythe(IronScythe, 0, 0), NoItem>>,
                                   <<Scythe(WoodenScytheId, 0, 0), NoItem>>}
    /\ world[Vector3(SiteSide.x, GroundY + 1, SiteSide.z)].typeId = Air

Fairness == \A block \in Cells : WF_vars(Tick(block))

SpecLife == InitLife /\ [][Next]_vars /\ Fairness

\* the step harvests the ripe crop on the cell
Harvests(block) ==
    /\ last'.handler \in {"useOn", "woodenUseOn"}
    /\ isBlockCrop(world[block]) /\ world[block].growth = 7
    /\ \E i \in 1 .. Len(last'.dispatch) :
          last'.dispatch[i].block = block /\ last'.dispatch[i].action = "harvestCrop"

\* C6: harvesting a ripe crop of type T (wheat, carrots, potatoes,
\* beetroot) replaces the block at once by the fake block djc:fake_T; the
\* tick callback of that fake block makes it minecraft:T at growth 0; and
\* so, the tick firing eventually, every harvested crop is eventually its
\* own crop type at growth 0 again
C6CropLifecycle ==
    /\ [][\A block \in Cells :
            Harvests(block) => world'[block] = Block(Fake(world[block].typeId.name), NoState)]_vars
    /\ [][\A block \in Cells, T \in crops :
            (world[block].typeId = Fake(T.name) /\ last'.handler = "tick"
             /\ world'[block] # world[block]) => world'[block] = Block(T, 0)]_vars
    /\ \A block \in Cells, T \in crops :
            (world[block].typeId = Fake(T.name)) ~> (world[block] = Block(T, 0))

\* a harvested carrot crop back as carrots at growth 0 after its tick
C6Witness ==
    /\ last.handler = "tick"
    /\ \E block \in Cells : world[block] = Block(Carrots, 0)


(***************************************************************************)
(* The use-on handler next to a tall plant: a world of PlantLevels levels  *)
(* above its ground, the column of the plant in front of the player, who   *)
(* stands on the ground.  The world ends at the maximum build height, or   *)
(* lower (a dimension that is less high).                                  *)
(***************************************************************************)
PlantLevels == 12
PlantGrounds == {maxY - PlantLevels, maxY - 2 * PlantLevels}

PlantCells(ground) ==
    {Vector3(x, y, z) : x \in -Extent .. Extent,
                        y \in {ground + k : k \in 0 .. PlantLevels},
                        z \in -Extent .. Extent}

Stack(typeId, height) == [k \in 1 .. height |-> Plain(typeId)]

PlantHeights == {0, 1, 2, 3, PlantLevels - 1, PlantLevels}

PlantColumns ==
    {Stack(t, n) : t \in {Reeds, Bamboo}, n \in PlantHeights}
    \cup {<<Plain(Reeds), Plain(Reeds), Plain(Dirt), Plain(Reeds)>>,
          <<Plain(Bamboo), Plain(Bamboo), Plain(Bamboo), Plain(Dirt)>>}

PlantWorld(ground, column) ==
    [cell \in PlantCells(ground) |->
        LET level == cell.y - ground
        IN  IF level = 0 THEN Plain(Dirt)
            ELSE IF ColumnAt(SiteFront, cell) /\ level <= Len(column) THEN column[level]
            ELSE Plain(Air)]

\* the player's slots: the scythe, and a slot that is empty or nearly full
PlantSlots ==
    {<<Scythe(IronScythe, 0, f), other>> :
        f \in {0, 1},
        other \in {NoItem, ItemStack("minecraft:sugar_cane", StackLimit - 2),
                   Named(ItemStack("minecraft:bamboo", StackLimit - 1), "Gift")}}

InitPlant ==
    /\ IdleDrops /\ IdleGive /\ IdleProbe /\ IdleHurt
    /\ \E ground \in PlantGrounds, column \in PlantColumns, slots \in PlantSlots :
         /\ Len(column) > 4 => getFortuneLevel(slots[1]) = 0
         /\ world = PlantWorld(ground, column)
         /\ players = [p \in Players |->
                         [location |-> Vector3(Scale \div 2, (ground + 1) * Scale,
                                               Scale \div 2),
                          viewDirection |-> East,
                          selectedSlotIndex |-> 1, slots |-> slots]]
    /\ eventCount = 0
    /\ last = Idle

NextPlant == \E p \in Players : UseOn(p)

SpecPlant == InitPlant /\ [][NextPlant]_vars

\* whether the block's location is at most ten blocks from the location
\* (lengths in half blocks)
WithinTenBlocks(block, location) ==
    LET half == Scale \div 2
        dx == 2 * block.x - location.x \div half
        dy == 2 * block.y - location.y \div half
        dz == 2 * block.z - location.z \div half
    IN  dx * dx + dy * dy + dz * dz <= (2 * 10) * (2 * 10)

\* C16: each collected block of a sugarcane / bamboo column is harvested on
\* its own: one drop of a quantity in [1, 1 + fortune], the deposited plus
\* the world-spawned amount being that quantity, and the block replaced by
\* the fake variant if it is at most 10 blocks from the player and by air
\* otherwise
C16StackedBlocksHarvestedSingly ==
    (last.handler = "useOn" /\ ~last.threw) =>
        \A i \in 1 .. Len(last.stacked) :
            LET call == last.stacked[i]
                reeds == call.world[call.struck].typeId = Reeds
                dropId == IF reeds THEN "minecraft:sugar_cane" ELSE "minecraft:bamboo"
                fake == IF reeds THEN Fake(<<"sugar_cane">>) ELSE Fake(<<"bamboo">>)
            IN  \A k \in 1 .. Len(call.blocks) :
                    LET block == call.blocks[k]
                        deposits == DepositsOf(block, dropId)
                        spawns == SpawnsOf(block, dropId)
                    IN  /\ Cardinality(deposits) = 1
                        /\ \A d \in deposits :
                               /\ last.gives[d].quantity
                                      \in 1 .. (1 + getFortuneLevel(last.heldBefore))
                               /\ last.gives[d].added + SumOfSpawns(spawns)
                                      = last.gives[d].quantity
                        /\ \A p \in Players :
                               world[block] =
                                   DefaultBlock(IF WithinTenBlocks(block, players[p].location)
                                                THEN fake ELSE Air)

\* C19: the upward walk of getStackedPlant ends, after at most as many
\* blocks as there are levels up to the maximum build height 319; it
\* collects only the vertically consecutive blocks above the bottom block
\* whose type is the plant's type, none of them above Y 319, and stops at
\* the first block of another type or missing block
C19ColumnWalk ==
    last.handler = "useOn" =>
        \A i \in 1 .. Len(last.stacked) :
            LET call == last.stacked[i]
                id == call.world[call.bottom].typeId
                next == Up(call.bottom, Len(call.blocks) + 1)
            IN  /\ Len(call.blocks) <= Max(0, maxY - call.bottom.y)
                /\ \A k \in 1 .. Len(call.blocks) :
                       /\ call.blocks[k] = Up(call.bottom, k)
                       /\ call.blocks[k].y <= maxY
                       /\ Loaded(call.world, call.blocks[k])
                       /\ call.world[call.blocks[k]].typeId = id
                /\ \/ next.y > maxY
                   \/ ~Loaded(call.world, next)
                   \/ call.world[next].typeId # id

\* a walk up a bamboo column that ends where the world ends, below the
\* maximum build height
C19Witness ==
    /\ last.handler = "useOn"
    /\ \E i \in 1 .. Len(last.stacked) :
          LET call == last.stacked[i]
          IN  /\ Len(call.blocks) = PlantLevels - 1
              /\ call.world[call.bottom].typeId = Bamboo
              /\ call.blocks[Len(call.blocks)].y < maxY
              /\ ~Loaded(call.world, above(call.blocks[Len(call.blocks)]))


(***************************************************************************)
(* The life of a tool: an iron scythe of any damage up to the maximum, in  *)
(* use-on and hit-block events one after the other.                        *)
(***************************************************************************)
InitWear ==
    /\ IdleDrops /\ IdleGive /\ IdleProbe /\ IdleHurt
    /\ \E front \in FrontColumns, side \in SideColumns, behind \in BehindColumns :
         world = WorldOf(front, side, behind)
    /\ \E damage \in 0 .. ScytheMaxDurability :
         players = [p \in Players |->
                      [location |-> PlayerLocation, viewDirection |-> East,
                       selectedSlotIndex |-> 1,
                       slots |-> <<Scythe(IronScythe, damage, 0), NoItem>>]]
    /\ eventCount = 0
    /\ last = Idle

NextWear ==
    \/ \E p \in Players : UseOn(p)
    \/ \E p \in Players : HitBlock(p)
    \/ \E block \in Cells : Tick(block)

SpecWear == InitWear /\ [][NextWear]_vars

\* the step is a pass of the use-on or hit-block handler that processed a
\* block: a wearing pass
WearingPass ==
    last'.handler \in {"useOn", "hitBlock"} /\ ~last'.threw /\ last'.count > 0

\* C22: the damage of the held scythe never exceeds its maxDurability; a
\* wearing pass with damage below the maximum raises the damage by one and
\* one with the damage at the maximum removes the tool from the held slot,
\* so that a tool of damage d survives exactly maxDurability - d wearing
\* passes; the held slot changes in no other step; and what the final pass
\* harvested or destroyed stays: the blocks are as the pass left them and
\* the drops it deposited are in the inventory
C22DamageWithinDurability ==
    /\ [](\A p \in Players :
             HeldNow(p) # NoItem =>
                 /\ HeldNow(p).damage >= 0
                 /\ HeldNow(p).damage <= ScytheMaxDurability)
    /\ [][\A p \in Players :
             LET before == players[p].slots[players[p].selectedSlotIndex]
                 after == players'[p].slots[players[p].selectedSlotIndex]
             IN  /\ (WearingPass /\ before.damage < ScytheMaxDurability) =>
                        /\ after = [before EXCEPT !.damage = @ + 1]
                        /\ ~last'.broken
                 /\ (WearingPass /\ before.damage = ScytheMaxDurability) =>
                        /\ after = NoItem /\ last'.broken
                        /\ \A j \in 1 .. Len(last'.dispatch) :
                               world'[last'.dispatch[j].block] = last'.dispatch[j].after
                        /\ \E j \in 1 .. Len(last'.dispatch) : last'.dispatch[j].counted
                        /\ \A d \in 1 .. Len(last'.gives) :
                               CountItems(players'[p].slots, last'.gives[d].itemId)
                                   = CountItems(players[p].slots, last'.gives[d].itemId)
                                     + SumOfAdded(last'.gives[d].itemId, 1)
                 /\ after # before => WearingPass
      ]_vars

\* a tool one point below its maximum that has survived one wearing pass,
\* the use that harvested the ripe carrots into the inventory, and was
\* removed by the next, the hit that destroyed the replanted carrots after
\* the tick of the fake block: the cell is air
C22Witness ==
    /\ last.handler = "hitBlock" /\ last.count > 0 /\ last.broken
    /\ last.heldBefore.damage = ScytheMaxDurability
    /\ \A p \in Players :
          /\ HeldNow(p) = NoItem
          /\ CountItems(players[p].slots, "minecraft:carrot") > 0
    /\ \E j \in 1 .. Len(last.dispatch) :
          /\ last.dispatch[j].action = "destroyBlock"
          /\ last.dispatch[j].before = Block(Carrots, 0)
          /\ world[last.dispatch[j].block] = Plain(Air)


(***************************************************************************)
(* The use-on handler at the edge of a pit: the world reaches one level    *)
(* below the ground the player stands on, and the ground of the site in    *)
(* front of the player may be dug out.                                     *)
(***************************************************************************)
PitCells ==
    {Vector3(x, y, z) : x \in -Extent .. Extent,
                        y \in {GroundY + k : k \in (0 - 1) .. WorldHeight},
                        z \in -Extent .. Extent}

\* the columns on the site in front, from the level of the player's feet up
PitColumns ==
    {<<Ripe(Wheat)>>, <<Block(Wheat, 6)>>, <<Plain(Reeds)>>,
     <<Plain(Reeds), Plain(Reeds), Plain(Reeds)>>, <<Plain(Bamboo), Plain(Bamboo)>>,
     <<Plain(Air), Plain(Reeds)>>, <<Plain(Air), Plain(Bamboo)>>,
     <<Plain(Dirt), Plain(Reeds)>>, <<Plain(TallGrass)>>, <<Plain(Dirt)>>}

PitWorld(front, side, pit) ==
    [cell \in PitCells |->
        LET level == cell.y - GroundY
            column == IF ColumnAt(SiteFront, cell) THEN front
                      ELSE IF ColumnAt(SiteSide, cell) THEN side
                      ELSE <<>>
        IN  IF level < 0 THEN Plain(Dirt)
            ELSE IF level = 0
                 THEN (IF pit /\ ColumnAt(SiteFront, cell) THEN Plain(Air) ELSE Plain(Dirt))
            ELSE IF level <= Len(column) THEN column[level]
            ELSE Plain(Air)]

InitPit ==
    /\ IdleDrops /\ IdleGive /\ IdleProbe /\ IdleHurt
    /\ \E front \in PitColumns, side \in SideColumns, pit \in BOOLEAN :
         world = PitWorld(front, side, pit)
    /\ \E d \in ViewDirections, fortune \in {0, 1} :
         players = [p \in Players |->
                      [location |-> PlayerLocation, viewDirection |-> d,
                       selectedSlotIndex |-> 1,
                       slots |-> <<Scythe(IronScythe, 0, fortune), NoItem>>]]
    /\ eventCount = 0
    /\ last = Idle

NextPit ==
    \/ \E p \in Players : UseOn(p)
    \/ \E block \in PitCells : Tick(block)

SpecPit == InitPit /\ [][NextPit]_vars

\* the cells of the sweep of a player
SweepCells(p) ==
    LET blocks == blocksInSweep(world, players[p], 180,
                                reachOf(getHeldItem(players[p]))).value
    IN  {blocks[i] : i \in 1 .. Len(blocks)}

\* what multiHarvestArc acts on
Harvestable(block) ==
    \/ isBlockCrop(block) /\ block.growth = 7
    \/ block.typeId \in {Reeds, Bamboo}
    \/ block.typeId \in scytheDestructable

\* C23: the frame of multiHarvestArc.  A block the use-on pass changes is
\* a cell of the pass's sweep that held a ripe crop, sugarcane, bamboo or
\* a scythe-destructible block, or a block of the plant's type in the
\* column (same x and z) of a swept sugarcane or bamboo block; every other
\* block of the world keeps its type and state
C23FrameOfMultiHarvestArc ==
    [][last'.handler = "useOn" =>
          \A p \in Players, c \in DOMAIN world :
              world'[c] # world[c] =>
                  \/ c \in SweepCells(p) /\ Harvestable(world[c])
                  \/ \E s \in SweepCells(p) :
                        /\ Loaded(world, s)
                        /\ world[s].typeId \in {Reeds, Bamboo}
                        /\ s.x = c.x /\ s.z = c.z
                        /\ world[c].typeId = world[s].typeId
      ]_vars


(***************************************************************************)
(* Two players at one field: the second player stands two cells east of    *)
(* the first and faces west, so that the sweeps of both reach the crop     *)
(* between them.  The host runs one handler after the other; the tick      *)
(* callback of a fake block runs at some later moment.                     *)
(***************************************************************************)
PairPlayers == {"p1", "p2"}

PairCells ==
    {Vector3(x, y, z) : x \in -Extent .. (Extent + 2),
                        y \in {GroundY + k : k \in 0 .. WorldHeight},
                        z \in -Extent .. Extent}

PairLocation == Vector3(2 * Scale + Scale \div 2, (GroundY + 1) * Scale, Scale \div 2)

PairCrops == {Ripe(Wheat), Ripe(Potatoes), Ripe(Beetroot), Block(Wheat, 6), Block(Wheat, 0)}

PairWorld(front) ==
    [cell \in PairCells |->
        LET level == cell.y - GroundY
        IN  IF level = 0 THEN Plain(Dirt)
            ELSE IF ColumnAt(SiteFront, cell) /\ level = 1 THEN front
            ELSE Plain(Air)]

PairHeld == {Scythe(IronScythe, 0, 0), Scythe(WoodenScytheId, 0, 0)}

InitPair ==
    /\ IdleDrops /\ IdleGive /\ IdleProbe /\ IdleHurt
    /\ \E front \in PairCrops : world = PairWorld(front)
    /\ \E held1 \in PairHeld, held2 \in PairHeld :
         players = [p \in PairPlayers |->
                      IF p = "p1"
                      THEN [location |-> PlayerLocation, viewDirection |-> East,
                            selectedSlotIndex |-> 1, slots |-> <<held1, NoItem>>]
                      ELSE [location |-> PairLocation, viewDirection |-> West,
                            selectedSlotIndex |-> 1, slots |-> <<held2, NoItem>>]]
    /\ eventCount = 0
    /\ last = Idle

NextPair ==
    \/ \E p \in PairPlayers : UseOn(p)
    \/ \E p \in PairPlayers, block \in PairCells : WoodenUseOn(p, block)
    \/ \E p \in PairPlayers : HitBlock(p)
    \/ \E block \in PairCells : Tick(block)
    \/ \E block \in PairCells : Grow(block)

SpecPair == InitPair /\ [][NextPair]_vars

\* the handler of the step granted a drop for the block: rolled a drop
\* count, gave items or spawned items for it
Granted(block) ==
    \/ \E i \in 1 .. Len(last'.rolled) : last'.rolled[i].block = block
    \/ \E i \in 1 .. Len(last'.gives) : last'.gives[i].block = block
    \/ \E i \in 1 .. Len(last'.spawned) : last'.spawned[i].block = block

\* C21: no double harvest.  A handler grants drops for a cell only when the
\* cell holds a ripe crop, and leaves the fake block of the crop there; a
\* harvest or hit-block handler of any player that meets the fake block
\* leaves it as it is and grants nothing; the fake block changes only by
\* its tick callback, into the crop at growth 0; and a crop becomes ripe
\* only by growing from stage 6
C21NoDoubleHarvest ==
    [][\A block \in PairCells :
          /\ Granted(block) =>
                /\ last'.handler \in {"useOn", "woodenUseOn"}
                /\ isBlockCrop(world[block]) /\ world[block].growth = 7
                /\ world'[block] = Block(Fake(world[block].typeId.name), NoState)
                /\ ~isBlockCrop(world'[block])
          /\ (isFake(world[block]) /\ last'.handler \in {"useOn", "woodenUseOn", "hitBlock"}) =>
                /\ world'[block] = world[block]
                /\ ~Granted(block)
                /\ \A i \in 1 .. Len(last'.dispatch) :
                      last'.dispatch[i].block = block =>
                          /\ last'.dispatch[i].before = world[block]
                          /\ ~last'.dispatch[i].effect
                          /\ ~last'.dispatch[i].counted
          /\ (isFake(world[block]) /\ world'[block] # world[block]) =>
                /\ last'.handler = "tick"
                /\ \E T \in crops : /\ world[block].typeId = Fake(T.name)
                                    /\ world'[block] = Block(T, 0)
          /\ (isBlockCrop(world'[block]) /\ world'[block].growth = 7
              /\ world'[block] # world[block]) =>
                /\ last'.handler = "grow"
                /\ world[block] = Block(world'[block].typeId, 6)]_vars

\* the first player has harvested the wheat with the iron scythe, and the
\* second player's wooden scythe, used on the cell before its tick, has
\* met the fake block and got nothing
C21Witness ==
    /\ eventCount = 2
    /\ getHeldItem(players["p1"]).typeId = IronScythe
    /\ CountItems(players["p1"].slots, "minecraft:wheat") > 0
    /\ getHeldItem(players["p2"]).typeId = WoodenScytheId
    /\ CountItems(players["p2"].slots, "minecraft:wheat") = 0
    /\ last.handler = "woodenUseOn"
    /\ last.gives = <<>> /\ last.rolled = <<>> /\ last.spawned = <<>>
    /\ last.dispatch[1].before = Block(Fake(<<"wheat">>), NoState)
    /\ world[last.dispatch[1].block] = Block(Fake(<<"wheat">>), NoState)


(***************************************************************************)
(* calculateDrops on its own: the caller's fortune level, the draws of     *)
(* Math.random() the call consumes one after the other, and its result.    *)
(***************************************************************************)
MaxFortune == 4               \* the largest fortune level a caller passes
FortuneLevels == (0 - 1) .. MaxFortune

\* one call of Math.random() inside calculateDrops
DrawRandom ==
    /\ dropResult = NoResult
    /\ Len(rolls) < 1 + trialsOf(fortuneLevel)
    /\ \E k \in RandomValues : rolls' = Append(rolls, k)
    /\ UNCHANGED <<fortuneLevel, dropResult, container, request, remainder,
                   probe, answer, world, players, eventCount, last, dimension, hurtEvents>>

\* the return of calculateDrops
CalculateDrops ==
    /\ dropResult = NoResult
    /\ Len(rolls) = 1 + trialsOf(fortuneLevel)
    /\ dropResult' = calculateDrops(fortuneLevel, rolls)
    /\ UNCHANGED <<fortuneLevel, rolls, container, request, remainder,
                   probe, answer, world, players, eventCount, last, dimension, hurtEvents>>

InitDrops ==
    /\ fortuneLevel \in FortuneLevels /\ rolls = <<>> /\ dropResult = NoResult
    /\ IdleGive /\ IdleProbe /\ IdleWorld /\ IdleHurt

NextDrops == DrawRandom \/ CalculateDrops

SpecDrops == InitDrops /\ [][NextDrops]_vars

\* C2 as claimed: for every fortune level, clamped to 0 .. 3, and every
\* outcome of the random source, calculateDrops returns a count in
\* [1, 4 + f]
C2DropsWithinFourPlusFortune ==
    dropResult # NoResult =>
        /\ 1 <= dropResult
        /\ dropResult <= 4 + clampedFortune(fortuneLevel)

\* C2 amended: for every fortune level, clamped to 0 .. 3, and every outcome
\* of the random source, calculateDrops returns a count in [1, 4 + 2 * f]:
\* 1 .. f + 1 initial drops and up to 3 + f additional ones
C2DropsWithinBounds ==
    dropResult # NoResult =>
        /\ 1 <= dropResult
        /\ dropResult <= 4 + 2 * clampedFortune(fortuneLevel)

\* a call with a fortune level above 3 that returned the largest count
C2Witness == fortuneLevel = MaxFortune /\ dropResult = 4 + 2 * 3


(***************************************************************************)
(* giveEntityItems on its own: an entity's container, the item stack       *)
(* requested, and the returned remainder.  probe keeps the container as    *)
(* it was when the call was made.                                          *)
(***************************************************************************)
GiveSlotItems ==
    {NoItem,
     ItemStack("minecraft:wheat", 1),
     ItemStack("minecraft:wheat", StackLimit - 2),
     ItemStack("minecraft:wheat", StackLimit),
     Named(ItemStack("minecraft:wheat", 1), "Gift"),
     ItemStack("minecraft:cobblestone", StackLimit)}

GiveContainers ==
    {NoContainer} \cup {Container(<<a, b>>) : a \in GiveSlotItems, b \in GiveSlotItems}

GiveRequests ==
    {ItemStack("minecraft:wheat", n) : n \in {1, 3, StackLimit}}
    \cup {ItemStack("minecraft:wheat_seeds", 3)}

GiveEntityItems ==
    /\ remainder = NoResult
    /\ probe' = container
    /\ container' = [container EXCEPT !.slots = giveEntityItems(container, request).slots]
    /\ remainder' = giveEntityItems(container, request).remainder
    /\ UNCHANGED <<fortuneLevel, rolls, dropResult, request, answer,
                   world, players, eventCount, last, dimension, hurtEvents>>

InitGive ==
    /\ IdleDrops /\ IdleWorld /\ IdleHurt
    /\ container \in GiveContainers /\ request \in GiveRequests /\ remainder = NoResult
    /\ IdleProbe

NextGive == GiveEntityItems

SpecGive == InitGive /\ [][NextGive]_vars

\* the items of the requested type the call put into the container
Deposited == CountItems(container.slots, request.typeId) - CountItems(probe.slots, request.typeId)

\* C3: giveEntityItems deposits at most the available space computed for
\* the item type, the returned remainder plus the deposited amount is the
\* requested amount, and without a container the remainder is the whole
\* request and nothing is deposited
C3GiveConservesItems ==
    remainder # NoResult =>
        /\ Deposited <= getAvailableSpaceForItemStack(probe.slots, request)
        /\ remainder + Deposited = request.amount
        /\ ~probe.exists => (remainder = request.amount /\ Deposited = 0)


(***************************************************************************)
(* getBlocksInSweep on its own: probe is the call (where the actor stands, *)
(* where it looks, the arc), answer the returned list of blocks.           *)
(***************************************************************************)
SweepLocations ==
    {PlayerLocation,
     Vector3(0 - Scale \div 4, GroundY * Scale + Scale \div 2, Scale + (3 * Scale) \div 4)}

\* the loaded cells around the actor: every cell a sweep of these calls
\* comes to
ProbeCells ==
    {Vector3(x, y, z) : x \in (0 - MaxRange - 1) .. (MaxRange + 1), y \in GroundY .. maxY,
                        z \in (0 - MaxRange - 1) .. (MaxRange + 1)}

SweepCall(location, viewDirection, arcWidth, arcRange) ==
    [location |-> location, viewDirection |-> viewDirection,
     arcWidth |-> arcWidth, arcRange |-> arcRange]

GetBlocksInSweep ==
    /\ ~answer.done
    /\ LET blocks == getBlocksInSweep(ProbeCells, probe.location, probe.viewDirection,
                                      probe.arcWidth, probe.arcRange)
       IN  /\ answer' = [done |-> TRUE, value |-> blocks.value]
           /\ last' = [Idle EXCEPT !.threw = blocks.threw]
    /\ UNCHANGED <<fortuneLevel, rolls, dropResult, container, request, remainder,
                   probe, world, players, eventCount, dimension, hurtEvents>>

InitSweep ==
    /\ IdleDrops /\ IdleGive /\ IdleWorld /\ IdleHurt
    /\ probe \in {SweepCall(l, d, w, r) : l \in SweepLocations, d \in SweepFacings,
                                          w \in SweepWidths, r \in SweepRanges}
    /\ answer = [done |-> FALSE, value |-> <<>>]

NextSweep == GetBlocksInSweep

SpecSweep == InitSweep /\ [][NextSweep]_vars

\* the cell next to the actor's cell on its level that lies where the
\* actor looks: one step along each axis the view leans to, and certainly
\* along the axis it leans to most
IsForwardCell(cell, actorCell, viewDirection) ==
    LET dx == cell.x - actorCell.x
        dz == cell.z - actorCell.z
    IN  /\ cell.y = actorCell.y
        /\ dx \in {0 - 1, 0, 1} /\ dz \in {0 - 1, 0, 1}
        /\ dx * viewDirection.x >= 0 /\ dz * viewDirection.z >= 0
        /\ dx * viewDirection.x + dz * viewDirection.z > 0
        /\ Abs(viewDirection.x) >= Abs(viewDirection.z) => dx # 0
        /\ Abs(viewDirection.z) >= Abs(viewDirection.x) => dz # 0

\* C9: for every horizontal facing, getBlocksInSweep with arcWidth 0 and
\* arcRange 1 returns exactly three distinct cells: the forward cell on the
\* actor's foot level, the cell above that one, and the cell above the actor
C9NarrowSweepIsThreeCells ==
    (/\ answer.done /\ probe.arcWidth = 0 /\ probe.arcRange = 1
     /\ probe.viewDirection.y = 0)
    => /\ Len(answer.value) = 3
       /\ IsForwardCell(answer.value[1], getBlock(probe.location), probe.viewDirection)
       /\ answer.value[2] = above(answer.value[1])
       /\ answer.value[3] = above(getBlock(probe.location))
       /\ Cardinality({answer.value[i] : i \in 1 .. 3}) = 3

\* a narrow sweep made looking diagonally
C9Witness ==
    /\ answer.done /\ probe.arcWidth = 0 /\ probe.arcRange = 1
    /\ probe.viewDirection = SouthWest
    /\ answer.value[1] = Vector3(probe.location.x \div Scale - 1,
                                 probe.location.y \div Scale,
                                 probe.location.z \div Scale + 1)


(***************************************************************************)
(* isCropRipe on its own: probe is the block asked about, answer the       *)
(* returned boolean.                                                       *)
(***************************************************************************)
GrowthStages == 0 .. 7        \* the values of the "growth" state (host data)

RipeProbes ==
    {Block(t, g) : t \in GrowthTypes, g \in GrowthStages}
    \cup {Block(t, NoState) : t \in RegisteredBlockTypes \ GrowthTypes}

IsCropRipe ==
    /\ ~answer.done
    /\ answer' = [done |-> TRUE, value |-> isCropRipe(probe)]
    /\ UNCHANGED <<fortuneLevel, rolls, dropResult, container, request, remainder,
                   probe, world, players, eventCount, last, dimension, hurtEvents>>

InitRipe ==
    /\ IdleDrops /\ IdleGive /\ IdleWorld /\ IdleHurt
    /\ probe \in RipeProbes
    /\ answer = [done |-> FALSE, value |-> <<>>]

NextRipe == IsCropRipe

SpecRipe == InitRipe /\ [][NextRipe]_vars

\* C10 as claimed: isCropRipe returns true iff the growth state is 7, false
\* for the stages 0 .. 6 and false for every block that is not a crop,
\* whatever states it carries
C10RipeOnlyCrops ==
    answer.done =>
        /\ answer.value <=> probe.growth = 7
        /\ probe.growth \in 0 .. 6 => ~answer.value
        /\ ~isBlockCrop(probe) => ~answer.value

\* C10 amended: isCropRipe returns true iff the growth state is 7, whatever
\* the type of the block; it returns false for the stages 0 .. 6 and for
\* every block that carries no growth state
C10RipeIffGrowthSeven ==
    answer.done =>
        /\ answer.value <=> probe.growth = 7
        /\ probe.growth \in 0 .. 6 => ~answer.value
        /\ probe.growth = NoState => ~answer.value

\* a block that is not a crop, at growth 7, reported ripe
C10Witness == answer.done /\ probe = Block(MelonStem, 7) /\ answer.value


\* C13: no two elements of one getBlocksInSweep result refer to the same
\* cell, the above-actor cell appended at the end included, so that a loop
\* over the result meets no cell twice (an undefined element, got for a
\* location that is not a number, refers to no cell)
C13SweepCellsAreDistinct ==
    answer.done =>
        \A i, j \in 1 .. Len(answer.value) :
            (i # j /\ answer.value[i] # NoBlock) => answer.value[i] # answer.value[j]

\* a half-circle sweep of two blocks' range: its 362 samples leave few cells
C13Witness ==
    /\ answer.done /\ probe.arcWidth = 180 /\ probe.arcRange = 2
    /\ probe.viewDirection = NorthEastish
    /\ Len(answer.value) > 3
    /\ Len(answer.value) < 40


(***************************************************************************)
(* getEntitiesInSweep on its own, next to getBlocksInSweep: probe is the   *)
(* call (the actor, the arc and the entities of the dimension), answer the *)
(* returned array, last.handler the function called.                       *)
(***************************************************************************)
ActorId == "player"

\* the location of an entity standing mid-cell, (dx, dy, dz) cells from the
\* actor's cell
Standing(location, dx, dy, dz) ==
    Vector3((Floor(location.x) + dx) * Scale + Scale \div 2,
            (Floor(location.y) + dy) * Scale,
            (Floor(location.z) + dz) * Scale + Scale \div 2)

\* the mobs around the actor, by their cell offsets
MobPlacements ==
    {<<>>,
     <<[id |-> "cow", at |-> <<1, 0, 0>>], [id |-> "pig", at |-> <<1, 1, 0>>]>>,
     <<[id |-> "cow", at |-> <<0, 0, 0>>], [id |-> "pig", at |-> <<2, 0, 0>>]>>,
     <<[id |-> "cow", at |-> <<1, 0, 1>>], [id |-> "pig", at |-> <<1, 0, 1>>],
       [id |-> "bat", at |-> <<0 - 1, 0, 0>>]>>,
     <<[id |-> "cow", at |-> <<0, 0, 1>>], [id |-> "pig", at |-> <<0, 0 - 1, 1>>],
       [id |-> "bat", at |-> <<0 - 1, 0, 0 - 2>>]>>}

\* the entities of the dimension: the actor first, then the mobs
EntitiesOf(location, mobs) ==
    <<Entity(ActorId, location)>>
    \o [i \in 1 .. Len(mobs) |->
          Entity(mobs[i].id, Standing(location, mobs[i].at[1], mobs[i].at[2], mobs[i].at[3]))]

EntityCall(location, viewDirection, arcWidth, arcRange, mobs) ==
    [location |-> location, viewDirection |-> viewDirection,
     arcWidth |-> arcWidth, arcRange |-> arcRange,
     id |-> ActorId, entities |-> EntitiesOf(location, mobs)]

GetEntitiesInSweep ==
    /\ ~answer.done
    /\ answer' = [done |-> TRUE,
                  value |-> getEntitiesInSweep(probe, probe.entities,
                                               probe.arcWidth, probe.arcRange)]
    /\ last' = [Idle EXCEPT !.handler = "getEntitiesInSweep"]
    /\ UNCHANGED <<fortuneLevel, rolls, dropResult, container, request, remainder,
                   probe, world, players, eventCount, dimension, hurtEvents>>

InitEntities ==
    /\ IdleDrops /\ IdleGive /\ IdleWorld /\ IdleHurt
    /\ probe \in {EntityCall(l, d, w, r, m) :
                    l \in SweepLocations, d \in SweepFacings, w \in EntityWidths,
                    r \in SweepRanges, m \in MobPlacements}
    /\ answer = [done |-> FALSE, value |-> <<>>]

NextEntities == GetBlocksInSweep \/ GetEntitiesInSweep

SpecEntities == InitEntities /\ [][NextEntities]_vars

\* the answer is that of the entity sweep / of the block sweep
EntitiesAnswered == answer.done /\ last.handler = "getEntitiesInSweep"
BlocksAnswered == answer.done /\ last.handler = "none"

\* C11: with arcRange 0, whatever the arcWidth, getBlocksInSweep returns
\* only the cell directly above the actor and getEntitiesInSweep returns an
\* empty result
C11ZeroRangeSweeps ==
    probe.arcRange = 0 =>
        /\ BlocksAnswered => answer.value = <<above(getBlock(probe.location))>>
        /\ EntitiesAnswered => answer.value = <<>>

\* an entity sweep of range 0 over half a circle, mobs standing next to the
\* actor and in its cell
C11Witness ==
    /\ EntitiesAnswered /\ probe.arcRange = 0 /\ probe.arcWidth = 180
    /\ Len(probe.entities) = 3
    /\ \E i \in 1 .. Len(probe.entities) :
          /\ probe.entities[i].id # ActorId
          /\ getBlock(probe.entities[i].location) = getBlock(probe.location)
    /\ answer.value = <<>>

\* the cells the entity sweep samples: on the actor's foot level
SampledCells ==
    {sampleLocation(Floor(probe.location.x), Floor(probe.location.y),
                    Floor(probe.location.z), t) :
        t \in {targetsOf(probe.viewDirection, probe.arcWidth, probe.arcRange, 1)[k] :
                  k \in 1 .. samplesOf(probe.arcWidth, probe.arcRange, 1)}}

\* C12: getEntitiesInSweep never returns the actor itself, returns each
\* entity at most once, and returns only entities that are in a sampled
\* cell on the actor's foot level, never one on the level above
C12EntitySweepResult ==
    EntitiesAnswered =>
        /\ \A i \in 1 .. Len(answer.value) : answer.value[i].id # probe.id
        /\ \A i, j \in 1 .. Len(answer.value) :
               i # j => answer.value[i].id # answer.value[j].id
        /\ \A i \in 1 .. Len(answer.value) :
               /\ answer.value[i] \in {probe.entities[k] : k \in 1 .. Len(probe.entities)}
               /\ getBlock(answer.value[i].location) \in SampledCells
               /\ getBlock(answer.value[i].location).y = Floor(probe.location.y)

\* a sweep that met the cow in front of the actor from many angles and
\* returned it once, and not the pig one level up
C12Witness ==
    /\ EntitiesAnswered /\ probe.arcWidth = 100 /\ probe.arcRange = 1
    /\ probe.viewDirection = East
    /\ Len(probe.entities) = 3 /\ probe.entities[3].id = "pig"
    /\ getBlock(probe.entities[3].location) = above(getBlock(probe.entities[2].location))
    /\ answer.value = <<probe.entities[2]>>


(***************************************************************************)
(* Area damage: the entityHurt handler of main.js (17-59).  The host       *)
(* queues an entityHurt event for every damage an entity takes, the damage *)
(* applied by a script through applyDamage included, and delivers the      *)
(* queued events one at a time.  A damage is a double, and the event of an *)
(* applied damage carries the amount applied.  The health of an entity is  *)
(* the host's: whether a damage is refused (the entity is invulnerable),   *)
(* hurts or kills is the host's answer to the call.                        *)
(***************************************************************************)
MaxHurts == 4                 \* entityHurt events the host queues in a behaviour

PlayerTypeId == "minecraft:player"
NoEntity == [id |-> "none", typeId |-> "none"]

LivingEntity(id, typeId, location) ==
    [id |-> id, typeId |-> typeId, location |-> location]

HurtEvent(hurtEntity, damage, damagingEntity) ==
    [hurtEntity |-> hurtEntity, damage |-> damage,
     damageSource |-> [damagingEntity |-> damagingEntity, cause |-> "entityAttack"]]

\* main.js getRandomFloat (107-123) for the draw k / RandomResolution; min,
\* max and the result in tenths (the result is rounded to one decimal)
getRandomFloat(min, max, k) ==
    DivRound(k * (max - min) + min * RandomResolution, RandomResolution)

\* the host's answers to entity.applyDamage
HostAnswers == {"refused", "hurt", "killed"}

\* the dimension without a killed entity
RECURSIVE removeEntity(_, _, _)
removeEntity(living, id, i) ==
    IF i > Len(living) THEN <<>>
    ELSE (IF living[i].id = id THEN <<>> ELSE <<living[i]>>)
         \o removeEntity(living, id, i + 1)

\* entity.applyDamage(amount, {damagingEntity, cause}) on a handler run h:
\* unless the host refuses the damage the entity is hurt, which the host
\* reports by an entityHurt event, and a killed entity is gone
applyDamage(h, mob, amount, damagingEntity, hostAnswer) ==
    LET h1 == [h EXCEPT !.applied = Append(@, [id |-> mob.id, amount |-> amount])]
    IN  IF hostAnswer = "refused" THEN h1
        ELSE [h1 EXCEPT !.queue = Append(@, HurtEvent(mob.id, amount, damagingEntity)),
                        !.living = IF hostAnswer = "killed"
                                   THEN removeEntity(@, mob.id, 1) ELSE @]

\* a handler run: the dimension and the queue as the handler has changed
\* them so far, and the applyDamage calls it made
HurtRun(living, queue) == [living |-> living, queue |-> queue, applied |-> <<>>]

\* main.js 122: Math.round(randomFloat * 10) / 10, the double of so many
\* tenths
Tenths(n) == DoubleDiv(DoubleOf(n), DoubleOf(10))

\* main.js 49-51: mobs.forEach(mob => mob.applyDamage(damage *
\* getRandomFloat(0.3, 0.5), {damagingEntity: player, cause: entityAttack}));
\* factors[i] is what getRandomFloat returned for the i-th mob, in tenths
RECURSIVE damageEach(_, _, _, _, _, _, _)
damageEach(h, mobs, damage, player, factors, hostAnswers, i) ==
    IF i > Len(mobs) THEN h
    ELSE LET amount == DoubleMul(damage, Tenths(factors[i]))
         IN  damageEach(applyDamage(h, mobs[i], amount, player, hostAnswers[i]),
                        mobs, damage, player, factors, hostAnswers, i + 1)

\* the mobs around the player: id and cell offsets from the player
HurtPlacements ==
    {<<[id |-> "cow", at |-> <<1, 0, 0>>]>>,
     <<[id |-> "cow", at |-> <<1, 0, 0>>], [id |-> "pig", at |-> <<1, 0, 1>>]>>,
     <<[id |-> "cow", at |-> <<0 - 1, 0, 0>>]>>}

\* the entities of the dimension: the player first, then the mobs
HurtDimension(mobs) ==
    <<LivingEntity(ActorId, PlayerTypeId, PlayerLocation)>>
    \o [i \in 1 .. Len(mobs) |->
          LivingEntity(mobs[i].id, "minecraft:" \o mobs[i].id,
                       Standing(PlayerLocation, mobs[i].at[1], mobs[i].at[2], mobs[i].at[3]))]

\* a dimension and what is left of it when some of its entities are gone
RECURSIVE Remaining(_)
Remaining(living) ==
    {living} \cup UNION {Remaining(removeEntity(living, living[i].id, 1)) :
                            i \in 1 .. Len(living)}

\* the sweeps of the handler (arc of 100 degrees, reach of the scythe) of
\* the player facing east, computed once for each dimension
HurtSweeps ==
    [living \in UNION {Remaining(HurtDimension(mobs)) : mobs \in HurtPlacements} |->
        getEntitiesInSweep([id |-> ActorId, location |-> PlayerLocation,
                            viewDirection |-> East], living, 100, ScytheReach)]

\* getEntitiesInSweep(player, arcWidth, arcRange) on the dimension
entitiesInSweep(player, living, arcWidth, arcRange) ==
    IF /\ player.location = PlayerLocation /\ player.viewDirection = East
       /\ arcWidth = 100 /\ arcRange = ScytheReach /\ living \in DOMAIN HurtSweeps
    THEN HurtSweeps[living]
    ELSE getEntitiesInSweep(player, living, arcWidth, arcRange)

\* the guards of the handler (lines 23-43): the damage came from a player
\* who holds an item with the scythe tag
sweepsOnHurt(eventData, player) ==
    LET source == eventData.damageSource
    IN  /\ source.damagingEntity # NoEntity
        /\ source.damagingEntity.typeId = PlayerTypeId
        /\ getHeldItem(player) # NoItem
        /\ hasScytheTag(getHeldItem(player))

\* the player as an entity of the dimension
AsEntity(p) ==
    [id |-> ActorId, typeId |-> PlayerTypeId, location |-> players[p].location,
     viewDirection |-> players[p].viewDirection]

\* the applyDamage calls of one handling that the host answers by a hurt
\* (and so by an entityHurt event)
Accepted(hostAnswers) ==
    Cardinality({i \in 1 .. Len(hostAnswers) : hostAnswers[i] # "refused"})

\* world.afterEvents.entityHurt (17-59): the first queued event delivered.
\* The answers of the host are drawn so that it queues no more than
\* MaxHurts events in a behaviour.
EntityHurt(p) ==
    LET eventData == Head(hurtEvents)
        damage == eventData.damage
        player == players[p]
        reach == reachOf(getHeldItem(player))
        start == HurtRun(dimension, Tail(hurtEvents))
        report(h, mobs) ==
            [mobs |-> mobs, applied |-> h.applied]
            @@ [Idle EXCEPT !.handler = "entityHurt"]
        handled(h, mobs) ==
            /\ dimension' = h.living
            /\ hurtEvents' = h.queue
            /\ last' = report(h, mobs)
    IN  /\ hurtEvents # <<>>
        /\ \E mobs \in {IF sweepsOnHurt(eventData, player)
                        THEN entitiesInSweep(AsEntity(p), dimension, 100, reach)
                        ELSE <<>>} :
             \E factors \in [1 .. Len(mobs) ->
                                {getRandomFloat(3, 5, k) : k \in RandomValues}],
                hostAnswers \in [1 .. Len(mobs) -> HostAnswers] :
                /\ eventCount + Accepted(hostAnswers) <= MaxHurts
                /\ eventCount' = eventCount + Accepted(hostAnswers)
                /\ handled(damageEach(start, mobs, damage,
                                      [id |-> ActorId, typeId |-> PlayerTypeId],
                                      factors, hostAnswers, 1), mobs)
        /\ UNCHANGED <<fortuneLevel, rolls, dropResult, container, request, remainder,
                       probe, answer, world, players>>

\* the host: an entity is hurt by the player's attack, by another entity
\* or by the world, and the entityHurt event is queued
AttackDamage == 6             \* eventData.damage of the host's hurts

HostHurts(k, source) ==
    /\ eventCount < MaxEvents
    /\ k \in 1 .. Len(dimension)
    /\ dimension[k].id # ActorId
    /\ hurtEvents' = Append(hurtEvents,
                            HurtEvent(dimension[k].id, DoubleOf(AttackDamage), source))
    /\ eventCount' = eventCount + 1
    /\ last' = [Idle EXCEPT !.handler = "hurt"]
    /\ UNCHANGED <<fortuneLevel, rolls, dropResult, container, request, remainder,
                   probe, answer, world, players, dimension>>

HurtSources ==
    {[id |-> ActorId, typeId |-> PlayerTypeId], NoEntity,
     [id |-> "zombie", typeId |-> "minecraft:zombie"]}

HurtHeld ==
    {Scythe(IronScythe, 0, 0), Scythe(WoodenScytheId, 0, 0), NoItem,
     ItemStack("minecraft:wheat", 1)}

InitHurt ==
    /\ IdleDrops /\ IdleGive /\ IdleProbe
    /\ world = WorldOf(<<>>, <<>>, <<>>)
    /\ \E held \in HurtHeld :
         players = [p \in Players |->
                      [location |-> PlayerLocation, viewDirection |-> East,
                       selectedSlotIndex |-> 1, slots |-> <<held, NoItem>>]]
    /\ \E mobs \in HurtPlacements : dimension = HurtDimension(mobs)
    /\ hurtEvents = <<>>
    /\ eventCount = 0
    /\ last = Idle

NextHurt ==
    \/ \E p \in Players : EntityHurt(p)
    \/ \E k \in 1 .. 3, source \in HurtSources : HostHurts(k, source)

SpecHurt == InitHurt /\ [][NextHurt]_vars

\* the cells on the level of the player's feet that the entity sweep of
\* the handler (100 degrees, the reach of the scythe) samples
HurtSweepCells ==
    {cell \in Cells :
        /\ cell.y = Floor(PlayerLocation.y)
        /\ getEntitiesInSweep([id |-> ActorId, location |-> PlayerLocation,
                               viewDirection |-> East],
                              <<Entity("probe", Standing(PlayerLocation, cell.x, 0, cell.z))>>,
                              100, ScytheReach) # <<>>}

\* C24, the part of it that the handler decides: handling one entityHurt
\* event caused by a player who holds a scythe applies the sweep damage
\* exactly once to each entity that getEntitiesInSweep returns (the entities
\* other than the player in the sampled cells) and to no other, the event
\* of the handler's own damage included; and each amount applied is the
\* damage of the event times 0.3, 0.4 or 0.5.  How long the chain of events
\* of the handler's own damage goes on is the host's: it ends when the host
\* refuses the damage or no entity is left in the sweep.
C24EachSweptEntityDamagedOnce ==
    [][\A p \in Players :
          (last'.handler = "entityHurt" /\ hurtEvents # <<>>
           /\ sweepsOnHurt(Head(hurtEvents), players[p])) =>
              /\ \A k \in 1 .. Len(dimension) :
                     Cardinality({j \in 1 .. Len(last'.applied) :
                                     last'.applied[j].id = dimension[k].id})
                         = IF /\ dimension[k].id # ActorId
                              /\ getBlock(dimension[k].location) \in HurtSweepCells
                           THEN 1 ELSE 0
              /\ \A j \in 1 .. Len(last'.applied) :
                     last'.applied[j].amount
                         \in {DoubleMul(Head(hurtEvents).damage, Tenths(n)) : n \in 3 .. 5}
      ]_vars

\* the handler has handled the event of its own damage: the amount applied
\* is no more than a quarter of the host's hurt (0.5 * 0.5 of it at most)
C24OwnDamageHandled ==
    /\ last.handler = "entityHurt" /\ last.applied # <<>>
    /\ DoubleLeq(DoubleMul(DoubleOf(4), last.applied[1].amount), DoubleOf(AttackDamage))


(***************************************************************************)
(* The wooden scythe: no arc, one block per use, no wear.                  *)
(***************************************************************************)
RipeCrops == {Ripe(Wheat), Ripe(Carrots), Ripe(Potatoes), Ripe(Beetroot)}

\* C25: while the held item is djc:wooden_scythe, a hit-block event leaves
\* every block and every slot of the player as it was (nothing destroyed,
\* no wear); WoodenScythe.onUseOn changes no block but the one the item was
\* used on, changes that one only when it was a ripe wheat, carrots,
\* potatoes or beetroot block, and leaves the held scythe, its damage
\* included, as it was
C25WoodenScythe ==
    [][\A p \in Players :
          (HeldNow(p) # NoItem /\ HeldNow(p).typeId = WoodenScytheId) =>
             /\ last'.handler = "hitBlock" =>
                   world' = world /\ players' = players
             /\ last'.handler = "woodenUseOn" =>
                   LET block == last'.dispatch[1].block
                   IN  /\ \A c \in Cells \ {block} : world'[c] = world[c]
                       /\ world'[block] # world[block] => world[block] \in RipeCrops
                       /\ HeldNow(p)' = HeldNow(p)
                       /\ players'[p].selectedSlotIndex = players[p].selectedSlotIndex
      ]_vars

\* a wooden scythe has harvested the ripe wheat it was used on, which is
\* the fake block now; then the player hit a block with tall grass in
\* reach of an arc: the grass stands and the scythe is unworn
C25Witness ==
    /\ last.handler = "hitBlock"
    /\ last.heldBefore = Scythe(WoodenScytheId, 0, 0)
    /\ \A p \in Players :
          /\ HeldNow(p) = Scythe(WoodenScytheId, 0, 0)
          /\ \E i \in 1 .. Len(HandlerSweeps[players[p].viewDirection]) :
                world[HandlerSweeps[players[p].viewDirection][i]] = Plain(TallGrass)
    /\ \E c \in Cells : world[c].typeId = Fake(<<"wheat">>)


(***************************************************************************)
(* The vector helpers of vectorUtils (bundled in OnUseOnScytheHarvest.js   *)
(* 51-113) on any JavaScript values.  A number is held in half units; a    *)
(* property read of a value yields a number, undefined or NaN.             *)
(***************************************************************************)
Num(n) == [tag |-> "number", n |-> n]
Undefined == [tag |-> "undefined", n |-> 0]
NaN == [tag |-> "NaN", n |-> 0]

\* a JavaScript value by its kind and what .x, .y and .z read from it
JsValue(kind, x, y, z) == [kind |-> kind, x |-> x, y |-> y, z |-> z]
JsUndefined == JsValue("undefined", Undefined, Undefined, Undefined)
JsNull == JsValue("null", Undefined, Undefined, Undefined)
JsZero == JsValue("zero", Undefined, Undefined, Undefined)
JsNumber == JsValue("number", Undefined, Undefined, Undefined)
JsObject(x, y, z) == JsValue("object", x, y, z)
EmptyObject == JsObject(Undefined, Undefined, Undefined)

\* !value is true for undefined, null and 0
Falsy(value) == value.kind \in {"undefined", "null", "zero"}

\* a + b and a - b: NaN unless both are numbers
Plus(a, b) == IF a.tag = "number" /\ b.tag = "number" THEN Num(a.n + b.n) ELSE NaN
Minus(a, b) == IF a.tag = "number" /\ b.tag = "number" THEN Num(a.n - b.n) ELSE NaN

\* Math.floor
MathFloor(a) == IF a.tag = "number" THEN Num(2 * (a.n \div 2)) ELSE NaN

\* a === b
StrictEquals(a, b) ==
    /\ a.tag = b.tag
    /\ a.tag # "NaN"
    /\ a.tag = "number" => a.n = b.n

Throws == [threw |-> TRUE, value |-> JsUndefined]
Returns(value) == [threw |-> FALSE, value |-> value]

\* areVectorsEqual (58-64)
areVectorsEqual(vector1, vector2) ==
    IF Falsy(vector1) \/ Falsy(vector2) THEN Throws
    ELSE Returns(/\ StrictEquals(vector1.x, vector2.x)
                 /\ StrictEquals(vector1.y, vector2.y)
                 /\ StrictEquals(vector1.z, vector2.z))

\* addVectors (73-79) with its argument test
addVectorsChecked(vector1, vector2) ==
    IF Falsy(vector1) \/ Falsy(vector2) THEN Throws
    ELSE Returns(JsObject(Plus(vector1.x, vector2.x), Plus(vector1.y, vector2.y),
                          Plus(vector1.z, vector2.z)))

\* subtractVectors (88-94)
subtractVectors(vector1, vector2) ==
    IF Falsy(vector1) \/ Falsy(vector2) THEN Throws
    ELSE Returns(JsObject(Minus(vector1.x, vector2.x), Minus(vector1.y, vector2.y),
                          Minus(vector1.z, vector2.z)))

\* floorVector (103-113)
floorVector(vector) ==
    IF Falsy(vector) THEN Throws
    ELSE Returns(JsObject(MathFloor(vector.x), MathFloor(vector.y), MathFloor(vector.z)))

\* the helpers on their own: probe is the call, answer what it did
VectorArguments ==
    {JsUndefined, JsNull, JsZero, JsNumber, EmptyObject,
     JsObject(Num(2), Undefined, Num(6)),
     JsObject(Num(2), Num(4), Num(6)),
     JsObject(Num(3), Num(0 - 1), Num(0 - 6))}

VectorCall(fn, vector1, vector2) == [fn |-> fn, vector1 |-> vector1, vector2 |-> vector2]

CallAreVectorsEqual ==
    /\ ~answer.done /\ probe.fn = "areVectorsEqual"
    /\ answer' = [done |-> TRUE, value |-> areVectorsEqual(probe.vector1, probe.vector2)]
    /\ UNCHANGED <<fortuneLevel, rolls, dropResult, container, request, remainder,
                   probe, world, players, eventCount, last, dimension, hurtEvents>>

CallAddVectors ==
    /\ ~answer.done /\ probe.fn = "addVectors"
    /\ answer' = [done |-> TRUE, value |-> addVectorsChecked(probe.vector1, probe.vector2)]
    /\ UNCHANGED <<fortuneLevel, rolls, dropResult, container, request, remainder,
                   probe, world, players, eventCount, last, dimension, hurtEvents>>

CallSubtractVectors ==
    /\ ~answer.done /\ probe.fn = "subtractVectors"
    /\ answer' = [done |-> TRUE, value |-> subtractVectors(probe.vector1, probe.vector2)]
    /\ UNCHANGED <<fortuneLevel, rolls, dropResult, container, request, remainder,
                   probe, world, players, eventCount, last, dimension, hurtEvents>>

CallFloorVector ==
    /\ ~answer.done /\ probe.fn = "floorVector"
    /\ answer' = [done |-> TRUE, value |-> floorVector(probe.vector1)]
    /\ UNCHANGED <<fortuneLevel, rolls, dropResult, container, request, remainder,
                   probe, world, players, eventCount, last, dimension, hurtEvents>>

InitVectors ==
    /\ IdleDrops /\ IdleGive /\ IdleWorld /\ IdleHurt
    /\ probe \in {VectorCall(fn, a, b) :
                    fn \in {"areVectorsEqual", "addVectors", "subtractVectors"},
                    a \in VectorArguments, b \in VectorArguments}
                 \cup {VectorCall("floorVector", a, JsUndefined) : a \in VectorArguments}
    /\ answer = [done |-> FALSE, value |-> <<>>]

NextVectors ==
    \/ CallAreVectorsEqual
    \/ CallAddVectors
    \/ CallSubtractVectors
    \/ CallFloorVector

SpecVectors == InitVectors /\ [][NextVectors]_vars

\* an object with x, y and z properties (numbers)
IsVector(value) ==
    /\ value.kind = "object"
    /\ value.x.tag = "number" /\ value.y.tag = "number" /\ value.z.tag = "number"

\* C20: addVectors, subtractVectors, areVectorsEqual and floorVector throw
\* whenever an argument is missing or is not an object with x, y and z
\* properties (an empty object, say), and so never return a vector with
\* undefined or NaN components for such arguments
C20VectorHelpersThrowOnMalformed ==
    (/\ answer.done
     /\ \/ ~IsVector(probe.vector1)
        \/ probe.fn # "floorVector" /\ ~IsVector(probe.vector2))
    => answer.value.threw


=============================================================================
